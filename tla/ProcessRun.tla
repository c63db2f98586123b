------------------------------ MODULE ProcessRun ------------------------------
(***************************************************************************)
(* The commands of one job: genut_runner.run starts them one by one        *)
(* through subprocess_util, registers their processes with the process     *)
(* registry, reads their output on a thread and gives each a timeout,      *)
(* while requests cancel the job.                                          *)
(*                                                                         *)
(* A command may fork: children share its output pipe or not, and belong   *)
(* to its process group or, after a setsid of their own or inside a        *)
(* container, do not.  A process may run for ever.                         *)
(***************************************************************************)
EXTENDS Naturals, Sequences

CONSTANTS
  Script,       \* the stages of the job: "check", "probe", "stream" or "tool"
  Cancelers     \* requests that cancel the job

\* A check is _ck().  A probe is a command run to its end and not registered (rev-parse,
\* log).  A stream is a registered command whose output nobody follows (clone, fetch,
\* reset, apply); a tool logs each line (venv, pip, GENUT).
ASSUME ScriptAssumption == Script \in Seq({"check", "probe", "stream", "tool"})

Stages == 1..Len(Script)
Commands == {k \in Stages : Script[k] # "check"}
Streams  == {k \in Stages : Script[k] \in {"stream", "tool"}}
Tools    == {k \in Stages : Script[k] = "tool"}

VARIABLES
  worker,       \* the thread of the job: [at, pc, late]; late: the timeout has passed
  leader,       \* leader[k]: the process of command k
  children,     \* children[k]: kinds of live children of command k
  reader,       \* reader[k]: the thread that reads the output of stream k
  stop,         \* streams whose reader has been told to stop
  flag,         \* the job is in process_registry._canceled
  registered,   \* the command in process_registry._procs, 0 if none
  canceler,     \* requests: [pc, target]
  killed,       \* history: commands whose tree has been killed
  after         \* history: after[k], callbacks begun after call k had returned, up to 2

processes == <<leader, children>>
registry  == <<flag, registered>>
vars == <<worker, processes, reader, stop, registry, canceler, killed, after>>

\* "pipe" holds the output pipe, "quiet" does not; "stray" holds it outside the group.
Children == {"pipe", "quiet", "stray"}

Worker == [at : 1..Len(Script) + 1, late : BOOLEAN,
           pc : {"stage", "register", "kill", "wait", "reap", "join", "close", "over"}]

TypeOK ==
  /\ worker \in Worker
  /\ leader \in [Stages -> {"none", "live", "done", "failed", "killed"}]
  /\ children \in [Stages -> SUBSET Children]
  /\ reader \in [Stages -> {"none", "reading", "passed", "calling", "gone"}]
  /\ stop \subseteq Stages
  /\ flag \in BOOLEAN /\ registered \in {0} \cup Stages
  /\ canceler \in [Cancelers -> [pc : {"idle", "kill", "over"}, target : {0} \cup Stages]]
  /\ killed \subseteq Stages
  /\ after \in [Stages -> 0..2]

Current == worker.at
IsAt(k, pc) == worker.at = k /\ worker.pc = pc
Dead(k) == leader[k] \in {"done", "failed", "killed"}
PipeOpen(k) == leader[k] = "live" \/ children[k] \cap {"pipe", "stray"} # {}

\* kill_tree: SIGKILL to the process group; it outlives its leader.
KillTree(k) ==
  /\ leader' = [leader EXCEPT ![k] = IF leader[k] = "live" THEN "killed" ELSE leader[k]]
  /\ children' = [children EXCEPT ![k] = children[k] \cap {"stray"}]
  /\ killed' = killed \cup {k}

Goto(pc) == worker' = [worker EXCEPT !.pc = pc]

\* The call for command k returns: the job goes on, or ends when the command has failed.
Returns(k) ==
  \/ worker' = [at |-> k + 1, pc |-> "stage", late |-> FALSE]
  \/ /\ worker.late \/ leader[k] # "done"
     /\ worker' = [at |-> k, pc |-> "over", late |-> FALSE]

-----------------------------------------------------------------------------
(* genut_runner.run *)

\* _ck
Check ==
  /\ Current \in Stages \ Commands /\ IsAt(Current, "stage")
  /\ worker' = IF flag THEN [worker EXCEPT !.pc = "over"] ELSE [worker EXCEPT !.at = @ + 1]
  /\ UNCHANGED <<processes, reader, stop, registry, canceler, killed, after>>

\* Popen, for a probe communicate follows at once.
Popen(k) ==
  /\ k \in Commands /\ IsAt(k, "stage")
  /\ leader' = [leader EXCEPT ![k] = "live"]
  /\ Goto(IF k \in Streams THEN "register" ELSE "wait")
  /\ UNCHANGED <<children, reader, stop, registry, canceler, killed, after>>

\* FileNotFoundError: the command is not there, the call fails without a process.
NotFound(k) ==
  /\ k \in Commands /\ IsAt(k, "stage")
  /\ Returns(k)
  /\ UNCHANGED <<processes, reader, stop, registry, canceler, killed, after>>

\* mutant: the flag is not looked at
RegisterOnly(k) ==
  /\ IsAt(k, "register")
  /\ registered' = k
  /\ reader' = [reader EXCEPT ![k] = "reading"]
  /\ Goto("wait")
  /\ UNCHANGED <<processes, stop, flag, canceler, killed, after>>

\* on_start registers the process and kills it after the mutex if the job is canceled;
\* then the reader starts.
Register(k) ==
  /\ IsAt(k, "register")
  /\ registered' = k
  /\ IF flag THEN Goto("kill") /\ UNCHANGED reader
     ELSE Goto("wait") /\ reader' = [reader EXCEPT ![k] = "reading"]
  /\ UNCHANGED <<processes, stop, flag, canceler, killed, after>>

KillNow(k) ==
  /\ IsAt(k, "kill")
  /\ KillTree(k)
  /\ reader' = [reader EXCEPT ![k] = "reading"]
  /\ Goto("wait")
  /\ UNCHANGED <<stop, registry, canceler, after>>

-----------------------------------------------------------------------------
(* run and run_streaming *)

\* proc.wait: the process has ended, whoever still holds the pipe.
Wait(k) ==
  /\ k \in Streams /\ IsAt(k, "wait") /\ Dead(k)
  /\ Goto("join")
  /\ UNCHANGED <<processes, reader, stop, registry, canceler, killed, after>>

\* proc.communicate: the process has ended and its pipes are closed.
Communicate(k) ==
  /\ k \notin Streams /\ IsAt(k, "wait") /\ Dead(k) /\ ~PipeOpen(k)
  /\ Returns(k)
  /\ UNCHANGED <<processes, reader, stop, registry, canceler, killed, after>>

\* mutant: only the process itself is killed
TimeoutKillsLeader(k) ==
  /\ IsAt(k, "wait")
  /\ IF k \in Streams THEN leader[k] = "live" ELSE PipeOpen(k)
  /\ leader' = [leader EXCEPT ![k] = IF leader[k] = "live" THEN "killed" ELSE leader[k]]
  /\ killed' = killed \cup {k}
  /\ worker' = [worker EXCEPT !.pc = "reap", !.late = TRUE]
  /\ UNCHANGED <<children, reader, stop, registry, canceler, after>>

Timeout(k) ==
  /\ IsAt(k, "wait")
  /\ IF k \in Streams THEN leader[k] = "live" ELSE PipeOpen(k)
  /\ KillTree(k)
  /\ worker' = [worker EXCEPT !.pc = "reap", !.late = TRUE]
  /\ UNCHANGED <<reader, stop, registry, canceler, after>>

\* Ten seconds to collect the process or the rest of its output; then the call goes on.
Reap(k) ==
  /\ IsAt(k, "reap")
  /\ IF k \in Streams THEN Goto("join") ELSE Returns(k)
  /\ UNCHANGED <<processes, reader, stop, registry, canceler, killed, after>>

\* mutant: the reader is waited for without a limit
JoinForever(k) ==
  /\ IsAt(k, "join")
  /\ reader[k] = "gone"
  /\ Returns(k)
  /\ UNCHANGED <<processes, reader, stop, registry, canceler, killed, after>>

\* mutant: the reader is not told to stop
JoinNoStop(k) ==
  /\ IsAt(k, "join")
  /\ \/ reader[k] = "gone" /\ Returns(k) /\ UNCHANGED <<processes, killed>>
     \/ reader[k] # "gone" /\ KillTree(k) /\ Goto("close")
  /\ UNCHANGED <<reader, stop, registry, canceler, after>>

\* _finalize_reader: five seconds for the reader; if it is still there its callbacks are
\* blocked and the rest of the tree is killed...
Join(k) ==
  /\ IsAt(k, "join")
  /\ \/ reader[k] = "gone" /\ Returns(k) /\ UNCHANGED <<processes, stop, killed>>
     \/ reader[k] # "gone" /\ stop' = stop \cup {k} /\ KillTree(k) /\ Goto("close")
  /\ UNCHANGED <<reader, registry, canceler, after>>

\* ...and after two more seconds the call returns, with or without it.
Close(k) ==
  /\ IsAt(k, "close")
  /\ Returns(k)
  /\ UNCHANGED <<processes, reader, stop, registry, canceler, killed, after>>

Returned(k) == worker.at > k \/ IsAt(k, "over")

\* _reader: a line passes the test of the event, its callback begins and ends.  A stream
\* without on_line only collects.
ReadLine(k) ==
  /\ reader[k] = "reading"
  /\ reader' = [reader EXCEPT ![k] = IF k \in stop THEN "gone"
                                     ELSE IF k \in Tools THEN "passed" ELSE "reading"]
  /\ UNCHANGED <<worker, processes, stop, registry, canceler, killed, after>>

BeginCallback(k) ==
  /\ reader[k] = "passed"
  /\ reader' = [reader EXCEPT ![k] = "calling"]
  /\ after' = [after EXCEPT ![k] = IF Returned(k) /\ after[k] < 2 THEN after[k] + 1 ELSE after[k]]
  /\ UNCHANGED <<worker, processes, stop, registry, canceler, killed>>

EndCallback(k) ==
  /\ reader[k] = "calling"
  /\ reader' = [reader EXCEPT ![k] = "reading"]
  /\ UNCHANGED <<worker, processes, stop, registry, canceler, killed, after>>

EndOfFile(k) ==
  /\ reader[k] = "reading" /\ ~PipeOpen(k)
  /\ reader' = [reader EXCEPT ![k] = "gone"]
  /\ UNCHANGED <<worker, processes, stop, registry, canceler, killed, after>>

-----------------------------------------------------------------------------
(* Processes *)

Fork(k, c) ==
  /\ leader[k] = "live" /\ c \notin children[k]
  /\ children' = [children EXCEPT ![k] = @ \cup {c}]
  /\ UNCHANGED <<worker, leader, reader, stop, registry, canceler, killed, after>>

Exit(k) ==
  /\ leader[k] = "live"
  /\ \E s \in {"done", "failed"} : leader' = [leader EXCEPT ![k] = s]
  /\ UNCHANGED <<worker, children, reader, stop, registry, canceler, killed, after>>

ChildExits(k, c) ==
  /\ c \in children[k]
  /\ children' = [children EXCEPT ![k] = @ \ {c}]
  /\ UNCHANGED <<worker, leader, reader, stop, registry, canceler, killed, after>>

-----------------------------------------------------------------------------
(* Requests *)

\* process_registry.cancel: under the mutex...
Cancel(c) ==
  /\ canceler[c].pc = "idle" /\ worker.pc # "over" /\ worker.at <= Len(Script)
  /\ flag' = TRUE
  /\ canceler' = [canceler EXCEPT ![c] =
                    [pc |-> IF registered = 0 THEN "over" ELSE "kill", target |-> registered]]
  /\ UNCHANGED <<worker, processes, reader, stop, registered, killed, after>>

\* ...and after it, when the job may be several commands further.
CancelKills(c) ==
  /\ canceler[c].pc = "kill"
  /\ KillTree(canceler[c].target)
  /\ canceler' = [canceler EXCEPT ![c].pc = "over"]
  /\ UNCHANGED <<worker, reader, stop, registry, after>>

\* The end of process_job unregisters.
Unregister ==
  /\ worker.pc = "over" \/ worker.at > Len(Script)
  /\ registered # 0 \/ flag
  /\ registered' = 0 /\ flag' = FALSE
  /\ UNCHANGED <<worker, processes, reader, stop, canceler, killed, after>>

-----------------------------------------------------------------------------

Init ==
  /\ worker = [at |-> 1, pc |-> "stage", late |-> FALSE]
  /\ leader = [k \in Stages |-> "none"]
  /\ children = [k \in Stages |-> {}]
  /\ reader = [k \in Stages |-> "none"]
  /\ stop = {}
  /\ flag = FALSE /\ registered = 0
  /\ canceler = [c \in Cancelers |-> [pc |-> "idle", target |-> 0]]
  /\ killed = {}
  /\ after = [k \in Stages |-> 0]

\* Steps that need no patience, and those that a timeout makes happen.
Work(k) ==
  \/ Popen(k) \/ NotFound(k) \/ Register(k) \/ KillNow(k) \/ Wait(k)
  \/ Communicate(k) \/ Reap(k) \/ Join(k) \/ Close(k)

Reading(k) == ReadLine(k) \/ BeginCallback(k) \/ EndCallback(k) \/ EndOfFile(k)
Process(k) == Exit(k) \/ \E c \in Children : Fork(k, c) \/ ChildExits(k, c)

Next ==
  \/ Check \/ Unregister
  \/ \E k \in Stages : Work(k) \/ Timeout(k) \/ Reading(k) \/ Process(k)
  \/ \E c \in Cancelers : Cancel(c) \/ CancelKills(c)

Spec == Init /\ [][Next]_vars

\* Threads run and SIGKILL is sent; only for probes is the timeout relied on.
Fairness ==
  /\ WF_vars(Check) /\ WF_vars(Unregister)
  /\ \A k \in Stages : WF_vars(Work(k))
  /\ \A k \in Commands \ Streams : WF_vars(Timeout(k))
  /\ \A c \in Cancelers : WF_vars(CancelKills(c))

FairSpec == Spec /\ Fairness

\* ...and the others pass too.
Timeouts == \A k \in Streams : WF_vars(Timeout(k))

-----------------------------------------------------------------------------
(* Properties *)

Over == worker.pc = "over" \/ worker.at > Len(Script)

\* While a job is canceled, a registered process that lives is about to be killed, by the
\* request that flagged the job or by the thread that registers it: no process slips in
\* between the two critical sections of the registry (cancel, register).
KillIsComing ==
  \A k \in Streams :
    flag /\ IsAt(k, "wait") /\ leader[k] = "live"
    => \E c \in Cancelers : canceler[c] = [pc |-> "kill", target |-> k]

\* When a call has returned, no process of its group holds its pipe, and after a timeout or
\* a cancel none is left at all: what runs on has left the group (kill_tree,
\* _finalize_reader).
NothingLeftBehind ==
  \A k \in Commands :
    Returned(k) => /\ leader[k] # "live" /\ "pipe" \notin children[k]
                   /\ k \in killed => "quiet" \notin children[k]

\* After a call has returned, its reader begins at most the callback of a line that had
\* passed the test before ("callbacks of a left-over reader are blocked after the return").
OneLateCallback == \A k \in Streams : after[k] <= 1

\* A canceled job ends, without the timeout of any registered command, even if its
\* processes never end.
CancelEnds == flag ~> Over

\* Every job ends when the timeouts pass, whatever its processes and their children do.
JobEnds == Timeouts => <>Over

=============================================================================
