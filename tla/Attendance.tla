------------------------------ MODULE Attendance ------------------------------
(***************************************************************************)
(* Who works on a running job: the inductive invariant behind the          *)
(* properties of jobs, threads and workers, WorkerServesItsJob,            *)
(* RunnersApart, NoOrphans and ResultsAreFinal.                            *)
(***************************************************************************)
EXTENDS Cleanup

\* Thread t works on a job.
Busy(t) == thread[t].pc # "idle"

\* A job is worked on by one thread or waits for one, never both or twice.
OneAttendant ==
  /\ \A t, u \in Threads : Busy(t) /\ Busy(u) /\ thread[t].job = thread[u].job => t = u
  /\ \A t \in Threads, k \in toRun : Busy(t) => thread[t].job # k.job
  /\ \A k, l \in toRun : k.job = l.job => k = l

\* What is worked on runs, until its own thread ends it, and in the right role.
AttendedRun ==
  /\ \A t \in Threads : Busy(t) =>
       Running(thread[t].job) /\ (thread[t].role = "prep" <=> IsPrep(thread[t].job))
  /\ \A k \in toRun : Running(k.job) /\ (k.role = "prep" <=> IsPrep(k.job))

\* What a thread's session remembers is still so when it ends the job.
SessionsAgree ==
  \A t \in Threads : thread[t].pc \in {"run", "unregister", "finish"} =>
    /\ thread[t].seen.product = product[thread[t].job]
    /\ thread[t].role = "job" =>
         /\ thread[t].seen.status = "running"
         /\ thread[t].seen.genut = genut[thread[t].job]
         /\ thread[t].seen.current = thread[t].job

\* The claims find the jobs they have chosen queued, and the workers idle.
PlanIsFree ==
  /\ \A r \in plan : status[r.job] = "queued" /\ workerStatus[r.worker] = "idle"
  /\ \A r, s \in plan : r.worker = s.worker => r = s
  /\ \A j \in picks : status[j] = "queued"

\* The watchdog does not meet a job that is worked on.
ReapsUnattended ==
  /\ \A j \in Jobs : Running(j) /\ age[j] > 0 => ~Attended(j)
  /\ \A j \in stuck : Running(j) /\ ~Attended(j)
  /\ loop = "reapFinish" => reaping \in stuck

\* Tasks wait only while they are dispatched, and nothing is left of before a crash.
LoopAlone ==
  /\ loop \notin {"dispatch", "dispatchPrep"} => toRun = {}
  /\ loop = "boot" => stuck = {} /\ plan = {} /\ picks = {} /\ \A t \in Threads : ~Busy(t)

JobsAreAttended ==
  /\ OneAttendant /\ AttendedRun /\ SessionsAgree /\ PlanIsFree
  /\ ReapsUnattended /\ LoopAlone
  /\ WorkerServesItsJob /\ NoOrphans

\* No queued job is canceled that a claim has chosen: cancel_all_jobs does not commit
\* between the read and the write of claim_jobs or of claim_prep_jobs.
ClaimUndisturbed ==
  /\ \A r \in plan : status[r.job] = "queued" => status'[r.job] # "canceled"
  /\ \A j \in picks : status[j] = "queued" => status'[j] # "canceled"

\* The behaviours in which that never happens.
UndisturbedSpec == Init /\ [][Next /\ ClaimUndisturbed]_vars

=============================================================================
