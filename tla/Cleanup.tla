------------------------------- MODULE Cleanup --------------------------------
(***************************************************************************)
(* What a job leaves behind when it ends: the inductive invariant behind   *)
(* OnlyStartsLeak.  It says how the rows of a job point to each other, and *)
(* what a thread may believe of them, also when the watchdog has ended the *)
(* job of a slow thread, a claim was rolled back or a canceled job revived.*)
(***************************************************************************)
EXTENDS KeyOwnership

\* Worker w is busy with job j.
Serves(w, j) == workerStatus[w] = "busy" /\ current[w] = j

\* Only a GENUT job that was given a worker locks a product, and only its own.
LocksAreOwned ==
  \A p \in Products : lock[p] # None =>
    /\ Row(lock[p]) /\ ~IsPrep(lock[p])
    /\ product[lock[p]] = p /\ genut[lock[p]] # None

\* A worker serves no job but the one it was given to.
WorkersAreOwned ==
  \A w \in Workers, j \in Jobs : Serves(w, j) =>
    /\ status[j] # "none"
    /\ Row(j) => genut[j] = w

\* A job that never ran, like every preparation job, was given no worker.
NoneAssigned ==
  \A j \in Jobs : status[j] \in {"none", "queued"} \/ (Row(j) /\ IsPrep(j)) => genut[j] = None

\* claim_jobs gives its workers, one each, to jobs that never had one.
PlanAssignsOnce ==
  /\ \A r \in plan : genut[r.job] = None /\ workerStatus[r.worker] = "idle"
  /\ \A r, s \in plan : r.worker = s.worker => r = s

\* Threads and tasks treat a job as what it is.
RolesFit ==
  /\ \A t \in Threads : thread[t].pc # "idle" =>
       /\ status[thread[t].job] # "none"
       /\ Row(thread[t].job) => (thread[t].role = "prep" <=> IsPrep(thread[t].job))
  /\ \A k \in toRun : /\ status[k.job] # "none"
                      /\ Row(k.job) => (k.role = "prep" <=> IsPrep(k.job))

\* Thread t holds a session that has loaded the rows of its job.
HasLoaded(t) == thread[t].pc \in {"run", "unregister", "finish"}

\* A session still names the product and the worker of its job; and while the job runs,
\* a worker that serves it did so when the session loaded it.
SessionsFit ==
  \A t \in Threads :
    HasLoaded(t) /\ thread[t].role = "job" /\ Row(thread[t].job) =>
      LET j == thread[t].job
          v == thread[t].seen
      IN /\ genut[j] # None
         /\ v.product = product[j] /\ v.genut = genut[j]
         /\ Running(j) => \A w \in Workers : Serves(w, j) => v.current = j

JobsLeaveNothing == /\ LocksAreOwned /\ WorkersAreOwned /\ NoneAssigned
                    /\ PlanAssignsOnce /\ RolesFit /\ SessionsFit

-----------------------------------------------------------------------------
(* The refinement *)

\* The holder of a worker is the job its row says it is busy with, while that job runs.
workerHolder ==
  [w \in Workers |-> IF workerStatus[w] = "busy" /\ current[w] # None /\ Running(current[w])
                     THEN current[w] ELSE None]

AbstractWorkers == INSTANCE ExclusiveKeys WITH Keys <- Workers, holder <- workerHolder

\* A worker is never handed from one running job to another without being free in between,
\* and no job has two: what claim_jobs read of them still holds when it writes, also after
\* a rollback, and while late threads, the watchdog and the sweep free them.
ImplementsExclusiveWorkers == AbstractWorkers!Spec

=============================================================================
