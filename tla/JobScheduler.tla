----------------------------- MODULE JobScheduler -----------------------------
(***************************************************************************)
(* The in-process job scheduler of GENUT_service: the tables jobs,         *)
(* product_locks and genut_instances, the scheduler loop that claims       *)
(* queued jobs and sweeps stale state, the threads that run the jobs, the  *)
(* process registry and the HTTP handlers that submit, cancel, rerun and   *)
(* delete jobs while all of that is going on.                              *)
(*                                                                         *)
(* A step of this module is one database transaction or one critical       *)
(* section of the registry.  Where the code reads in one transaction and   *)
(* writes in a later one, there are two steps and what was read is kept    *)
(* in a variable (plan, picks, stuck, killJobs, thread[t].seen) meanwhile. *)
(***************************************************************************)
EXTENDS Naturals, FiniteSets

CONSTANTS
  Jobs,          \* ids a job row can have
  Products,
  Workers,       \* GENUT instances: one worker each
  Threads,       \* pool threads jobs run on
  Keys, KeyOf,   \* KeyOf[p] is the (project, name) of product p
  AutoProducts,  \* products with auto_run set, active and with an interval
  None,
  ReuseIds,      \* TRUE: an id is max(rowid) + 1 (SQLite); FALSE: never reused
  SlowThreads,   \* TRUE: a job can exceed the runtime limit while its thread lives
  Ops,           \* the client operations the instance exercises
  SweepEvery,    \* ticks between two safety-net sweeps
  MaxCalls,      \* bound: API calls caught between two of their transactions
  MaxFaults,     \* bound: failed database transactions
  MaxCrashes     \* bound: crashes of the server process

AllOps == {"submit", "rerun", "cancel", "cancelAll", "delete", "deleteFinished",
           "runNow", "enable", "autoEnqueue"}

ASSUME ConstantsAssumption ==
  /\ Jobs \subseteq Nat
  /\ KeyOf \in [Products -> Keys]
  /\ AutoProducts \subseteq Products
  /\ None \notin Jobs \cup Products \cup Workers
  /\ ReuseIds \in BOOLEAN
  /\ SlowThreads \in BOOLEAN
  /\ Ops \subseteq AllOps
  /\ SweepEvery \in Nat \ {0}
  /\ MaxCalls \in Nat
  /\ MaxFaults \in Nat
  /\ MaxCrashes \in Nat

VARIABLES
  \* table jobs
  status, kind, product, genut,
  age,           \* running time: 0 within the limit, 1 over it, 2 over twice it
  \* table product_locks: the owner of a product's lock row
  lock,
  \* table genut_instances
  enabled, workerStatus, current,
  \* process_registry._procs and ._canceled
  procs, canceled,
  \* the thread pool
  thread,
  \* Scheduler._loop: where it is, and the results of reads it will act on
  loop, tick, plan, picks, toRun, stuck, reaping,
  \* API calls between two transactions
  killJobs, scanProducts, cycleProducts,
  faults, crashes

jobsTable    == <<status, kind, product, genut, age>>
workersTable == <<enabled, workerStatus, current>>
registry     == <<procs, canceled>>
loopVars     == <<loop, tick, plan, picks, toRun, stuck, reaping>>
calls        == <<killJobs, scanProducts, cycleProducts>>
budgets      == <<faults, crashes>>
vars == <<jobsTable, lock, workersTable, registry, thread, loopVars, calls, budgets>>

-----------------------------------------------------------------------------
(* Values *)

Terminal   == {"done", "failed", "canceled", "interrupted"}
RowStatus  == {"queued", "running"} \cup Terminal
PrepKinds  == {"auto_diff", "auto_scan"}
Kinds      == {"genut"} \cup PrepKinds
Phases     == {"idle", "start", "run", "unregister", "finish"}
LoopPhases == {"boot", "claim", "load", "assign", "dispatch", "auto", "assignPrep",
               "dispatchPrep", "sweep", "reap", "reapKill", "reapFinish"}

\* What an ORM session remembers of the rows it loaded: the session factory
\* sets expire_on_commit=False, so a commit does not make it read them again.
Seen == [status  : RowStatus \cup {"none"},
         product : Products \cup {None},
         genut   : Workers \cup {None},
         current : Jobs \cup {None}]

NothingSeen == [status |-> "none", product |-> None, genut |-> None, current |-> None]

Thread == [pc      : Phases,
           job     : Jobs \cup {None},
           role    : {"job", "prep"},
           outcome : {"done", "failed", "canceled"},
           seen    : Seen]

IdleThread == [pc |-> "idle", job |-> None, role |-> "job", outcome |-> "done",
               seen |-> NothingSeen]

Assignment == [job : Jobs, worker : Workers, product : Products]
Task       == [job : Jobs, role : {"job", "prep"}]

-----------------------------------------------------------------------------
(* Queries *)

Row(j)     == status[j] \in RowStatus
Key(j)     == KeyOf[product[j]]
Running(j) == status[j] = "running"
IsPrep(j)  == kind[j] \in PrepKinds
ServerUp   == loop # "boot"

PendingPrep(p) ==
  \E j \in Jobs : status[j] \in {"queued", "running"} /\ IsPrep(j) /\ product[j] = p

\* mutant: the preparation jobs are forgotten
LockedKeysOnly == {KeyOf[p] : p \in {q \in Products : lock[q] # None}}

\* mutant: the locks are forgotten
PrepKeysOnly == {Key(j) : j \in {i \in Jobs : Running(i) /\ IsPrep(i)}}

BusyKeys == {KeyOf[p] : p \in {q \in Products : lock[q] # None}}
              \cup {Key(j) : j \in {i \in Jobs : Running(i) /\ IsPrep(i)}}

\* mutant: newest first
LastOfKey(C) ==
  {j \in C : /\ Key(j) \notin BusyKeys
             /\ \A i \in C : i > j => Key(i) # Key(j)}

\* The oldest candidate of every key that is not busy.
FirstOfKey(C) ==
  {j \in C : /\ Key(j) \notin BusyKeys
             /\ \A i \in C : i < j => Key(i) # Key(j)}

\* mutant: a claim does not look at what a worker does
EnabledWorkers == {w \in Workers : enabled[w]}

\* The workers a claim may choose.
IdleWorkers == {w \in Workers : enabled[w] /\ workerStatus[w] = "idle"}

\* The rows a session loads now.
Fresh(j) == [status  |-> status[j],
             product |-> product[j],
             genut   |-> genut[j],
             current |-> IF genut[j] = None THEN None ELSE current[genut[j]]]

\* Is someone about to run, running or finishing job j?
Attended(j) == \/ \E t \in Threads : thread[t].pc # "idle" /\ thread[t].job = j
               \/ \E k \in toRun : k.job = j

\* mutant: every job that left the queue counts as over
LeftQueue(j, st) == st[j] # "queued"

NoLongerLive(j, st) == st[j] \notin {"queued", "running"}

-----------------------------------------------------------------------------
(* Inserting rows *)

\* The id the next INSERT gets.
NextId(i) == /\ i \in Jobs
             /\ \A k \in Jobs : k >= i => status[k] = "none"
             /\ \A k \in Jobs : k + 1 = i => status[k] # "none"

InsertJob(i, k, p) ==
  /\ NextId(i)
  /\ status'  = [status  EXCEPT ![i] = "queued"]
  /\ kind'    = [kind    EXCEPT ![i] = k]
  /\ product' = [product EXCEPT ![i] = p]
  /\ UNCHANGED <<genut, age>>

\* The pair of preparation jobs of one cycle; the diff gets the smaller id.
InsertCycle(p) ==
  \E i \in Jobs : \E k \in Jobs :
    /\ NextId(i)
    /\ k = i + 1
    /\ status'  = [status  EXCEPT ![i] = "queued", ![k] = "queued"]
    /\ kind'    = [kind    EXCEPT ![i] = "auto_diff", ![k] = "auto_scan"]
    /\ product' = [product EXCEPT ![i] = p, ![k] = p]
    /\ UNCHANGED <<genut, age>>

\* Rows disappear; under ReuseIds their ids become available again.
DeleteRows(S) ==
  LET gone == IF ReuseIds THEN "none" ELSE "deleted" IN
  /\ status'  = [j \in Jobs |-> IF j \in S THEN gone ELSE status[j]]
  /\ kind'    = [j \in Jobs |-> IF j \in S THEN "genut" ELSE kind[j]]
  /\ product' = [j \in Jobs |-> IF j \in S THEN None ELSE product[j]]
  /\ genut'   = [j \in Jobs |-> IF j \in S THEN None ELSE genut[j]]
  /\ age'     = [j \in Jobs |-> IF j \in S THEN 0 ELSE age[j]]

-----------------------------------------------------------------------------
(* Ending a job *)

\* mutant: the worker is left to the sweep
FinishJobKeepsWorker(j, v, result) ==
  IF v.status \in Terminal \/ ~Row(j)
  THEN UNCHANGED <<jobsTable, lock, workersTable>>
  ELSE /\ status' = [status EXCEPT ![j] = result]
       /\ age'    = [age EXCEPT ![j] = 0]
       /\ lock'   = [lock EXCEPT ![v.product] = IF @ = j THEN None ELSE @]
       /\ UNCHANGED <<kind, product, genut, workersTable>>

\* finish_job, run by a session that remembers the rows as v: the terminal
\* guard and the two ownership tests read v, except that the lock row was
\* never loaded before and is read now.
FinishJob(j, v, result) ==
  IF v.status \in Terminal \/ ~Row(j)
  THEN UNCHANGED <<jobsTable, lock, workersTable>>
  ELSE /\ status' = [status EXCEPT ![j] = result]
       /\ age'    = [age EXCEPT ![j] = 0]
       /\ lock'   = [lock EXCEPT ![v.product] = IF @ = j THEN None ELSE @]
       /\ IF v.genut # None /\ v.current = j
          THEN /\ workerStatus' = [workerStatus EXCEPT ![v.genut] = "idle"]
               /\ current'      = [current EXCEPT ![v.genut] = None]
          ELSE UNCHANGED <<workerStatus, current>>
       /\ UNCHANGED <<kind, product, genut, enabled>>

\* _finish_prep: no terminal guard, no lock, no worker.
FinishPrep(j, result) ==
  /\ IF Row(j)
     THEN /\ status' = [status EXCEPT ![j] = result]
          /\ age'    = [age EXCEPT ![j] = 0]
     ELSE UNCHANGED <<status, age>>
  /\ UNCHANGED <<kind, product, genut, lock, workersTable>>

\* process_registry.unregister, at the end of a thread and of a reap.
Forget(j) == /\ procs' = procs \ {j}
             /\ canceled' = canceled \ {j}

-----------------------------------------------------------------------------
(* Threads: worker.process_job (role "job"), auto_tick.process_prep_job ("prep") *)

SetThread(t, th) == thread' = [thread EXCEPT ![t] = th]

Release(t) == SetThread(t, IdleThread)

Spend == faults < MaxFaults /\ faults' = faults + 1

\* The thread loads job, product and genut, writes its first event and enters
\* the runner.  A GENUT job is not tested for still being running.
StartJob(t) ==
  LET j == thread[t].job IN
  /\ thread[t].pc = "start" /\ thread[t].role = "job"
  /\ \/ /\ ~Row(j)
        /\ Release(t)
        /\ UNCHANGED <<jobsTable, lock, workersTable>>
     \/ /\ Row(j) /\ genut[j] = None
        /\ FinishJob(j, Fresh(j), "failed")
        /\ Release(t)
     \/ /\ Row(j) /\ genut[j] # None
        /\ SetThread(t, [thread[t] EXCEPT !.pc = "run", !.seen = Fresh(j)])
        /\ UNCHANGED <<jobsTable, lock, workersTable>>
  /\ UNCHANGED <<registry, loopVars, calls, budgets>>

\* The first commit is outside any try block: if it fails the thread is gone and
\* nobody finishes the job.
StartJobFails(t) ==
  /\ thread[t].pc = "start" /\ thread[t].role = "job"
  /\ Row(thread[t].job)
  /\ Release(t)
  /\ Spend
  /\ UNCHANGED <<jobsTable, lock, workersTable, registry, loopVars, calls, crashes>>

\* A preparation job that is no longer running is left alone.
StartPrep(t) ==
  LET j == thread[t].job IN
  /\ thread[t].pc = "start" /\ thread[t].role = "prep"
  /\ IF Row(j) /\ Running(j)
     THEN SetThread(t, [thread[t] EXCEPT !.pc = "run", !.seen = Fresh(j)])
     ELSE Release(t)
  /\ UNCHANGED <<jobsTable, lock, workersTable, registry, loopVars, calls, budgets>>

\* A subprocess of the job starts and registers; a scan starts none.  The
\* entry stays after the process ended, until the job unregisters.
Register(t) ==
  /\ thread[t].pc = "run"
  /\ thread[t].role = "job" \/ kind[thread[t].job] = "auto_diff"
  /\ procs' = procs \cup {thread[t].job}
  /\ UNCHANGED <<jobsTable, lock, workersTable, canceled, thread, loopVars, calls, budgets>>

\* A preparation job queues a GENUT job for its product.  Which functions need one,
\* and whether a pending job suppresses it as a duplicate, is left open.
AutoEnqueue(t) ==
  /\ "autoEnqueue" \in Ops
  /\ thread[t].pc = "run" /\ thread[t].role = "prep"
  /\ \E i \in Jobs : InsertJob(i, "genut", thread[t].seen.product)
  /\ UNCHANGED <<lock, workersTable, registry, thread, loopVars, calls, budgets>>

\* The runner returns or raises, and the cancel flag is looked at once.
RunReturns(t) ==
  /\ thread[t].pc = "run"
  /\ \E o \in {"done", "failed"} :
       SetThread(t, [thread[t] EXCEPT
                       !.pc = "unregister",
                       !.outcome = IF thread[t].job \in canceled THEN "canceled" ELSE o])
  /\ UNCHANGED <<jobsTable, lock, workersTable, registry, loopVars, calls, budgets>>

Unregister(t) ==
  /\ thread[t].pc = "unregister"
  /\ Forget(thread[t].job)
  /\ SetThread(t, [thread[t] EXCEPT !.pc = "finish"])
  /\ UNCHANGED <<jobsTable, lock, workersTable, loopVars, calls, budgets>>

EndWith(t, v, result) ==
  IF thread[t].role = "job" THEN FinishJob(thread[t].job, v, result)
                            ELSE FinishPrep(thread[t].job, result)

Finish(t) ==
  /\ thread[t].pc = "finish"
  /\ EndWith(t, thread[t].seen, thread[t].outcome)
  /\ Release(t)
  /\ UNCHANGED <<registry, loopVars, calls, budgets>>

\* The last event or the finishing commit failed: the session rolls back,
\* which expires what it remembered, and tries again as failed or canceled.
FinishFallback(t) ==
  /\ thread[t].pc = "finish"
  /\ EndWith(t, Fresh(thread[t].job),
             IF thread[t].outcome = "canceled" THEN "canceled" ELSE "failed")
  /\ Release(t)
  /\ Spend
  /\ UNCHANGED <<registry, loopVars, calls, crashes>>

\* Both fallbacks failed: the thread ends and the rows stay as they are.
FinishLost(t) ==
  /\ thread[t].pc = "finish"
  /\ Release(t)
  /\ Spend
  /\ UNCHANGED <<jobsTable, lock, workersTable, registry, loopVars, calls, crashes>>

ThreadStep(t) == \/ StartJob(t) \/ StartPrep(t) \/ Register(t) \/ AutoEnqueue(t)
                 \/ RunReturns(t) \/ Unregister(t) \/ Finish(t)

ThreadFault(t) == StartJobFails(t) \/ FinishFallback(t) \/ FinishLost(t)

-----------------------------------------------------------------------------
(* Scheduler._loop *)

\* claim_jobs chooses: as many eligible jobs as there are idle workers, oldest
\* first, paired with workers in no particular order.
ClaimRead ==
  LET eligible == FirstOfKey({j \in Jobs : status[j] = "queued" /\ kind[j] = "genut"})
      picked   == {j \in eligible :
                     Cardinality({i \in eligible : i < j}) < Cardinality(IdleWorkers)}
  IN
  /\ loop = "claim"
  /\ \E f \in [picked -> IdleWorkers] :
       /\ \A i, j \in picked : f[i] = f[j] => i = j
       /\ plan' = {[job |-> j, worker |-> f[j], product |-> product[j]] : j \in picked}
  /\ loop' = IF picked = {} THEN "auto" ELSE "load"
  /\ UNCHANGED <<jobsTable, lock, workersTable, registry, thread,
                 tick, picks, toRun, stuck, reaping, calls, budgets>>

\* It loads the rows it chose; a row that is gone by now is passed over.
ClaimLoad ==
  /\ loop = "load"
  /\ plan' = {[r EXCEPT !.product = product[r.job]] : r \in {a \in plan : Row(a.job)}}
  /\ loop' = IF plan' = {} THEN "auto" ELSE "assign"
  /\ UNCHANGED <<jobsTable, lock, workersTable, registry, thread,
                 tick, picks, toRun, stuck, reaping, calls, budgets>>

\* Assignments whose lock INSERT raises an IntegrityError: the product is
\* locked, or the job row is gone.
Refused == {r \in plan : ~Row(r.job) \/ lock[r.product] # None}

\* try_acquire_lock rolls the whole session back, so the assignments made
\* before the refused one are undone and those after it go ahead.
Kept == IF Refused = {} THEN plan
        ELSE {r \in plan : \E b \in Refused : b.job < r.job}

\* claim_jobs, the writes: locks, jobs and workers in one transaction.  The
\* status is set whatever it is by now.  Everything assigned is returned, what
\* a rollback undid included.
ClaimWrite ==
  /\ loop = "assign"
  /\ \A a, b \in Refused : a = b
  /\ lock' = [p \in Products |->
       IF \E r \in Kept : r.product = p
       THEN (CHOOSE r \in Kept : r.product = p).job ELSE lock[p]]
  /\ status' = [j \in Jobs |-> IF \E r \in Kept : r.job = j THEN "running" ELSE status[j]]
  /\ age' = [j \in Jobs |-> IF \E r \in Kept : r.job = j THEN 0 ELSE age[j]]
  /\ genut' = [j \in Jobs |-> IF \E r \in Kept : r.job = j
                              THEN (CHOOSE r \in Kept : r.job = j).worker ELSE genut[j]]
  /\ workerStatus' = [w \in Workers |->
       IF \E r \in Kept : r.worker = w THEN "busy" ELSE workerStatus[w]]
  /\ current' = [w \in Workers |->
       IF \E r \in Kept : r.worker = w
       THEN (CHOOSE r \in Kept : r.worker = w).job ELSE current[w]]
  /\ toRun' = {[job |-> r.job, role |-> "job"] : r \in plan \ Refused}
  /\ loop' = IF plan \ Refused = {} THEN "auto" ELSE "dispatch"
  /\ plan' = {}
  /\ UNCHANGED <<kind, product, enabled, registry, thread, tick, picks, stuck,
                 reaping, calls, budgets>>

\* After a rollback the rows are loaded again, and a second missing one raises.
ClaimAborts ==
  /\ loop = "assign"
  /\ \E a, b \in Refused : a # b
  /\ loop' = "claim"
  /\ plan' = {}
  /\ UNCHANGED <<jobsTable, lock, workersTable, registry, thread, tick, picks, toRun,
                 stuck, reaping, calls, budgets>>

\* mutant: the counter is never reset
EndTickNoReset == loop' = (IF tick + 1 = SweepEvery THEN "sweep" ELSE "claim") /\ tick' = tick + 1

\* mutant: the sweep is never due
EndTickNoSweep == loop' = "claim" /\ tick' = (tick + 1) % SweepEvery

\* The end of a tick: every SweepEvery-th one sweeps.
EndTick == IF tick + 1 = SweepEvery THEN loop' = "sweep" /\ tick' = 0
                                    ELSE loop' = "claim" /\ tick' = tick + 1

\* A task gets a slot of the thread pool.  Slots are given in order, so the
\* tick itself goes on when all its tasks have one.
Dispatch ==
  /\ loop \in {"dispatch", "dispatchPrep"}
  /\ \E k \in toRun : \E t \in Threads :
       /\ thread[t].pc = "idle"
       /\ SetThread(t, [IdleThread EXCEPT !.pc = "start", !.job = k.job, !.role = k.role])
       /\ toRun' = toRun \ {k}
  /\ IF toRun' # {} THEN UNCHANGED <<loop, tick>>
     ELSE IF loop = "dispatch" THEN loop' = "auto" /\ UNCHANGED tick
     ELSE EndTick
  /\ UNCHANGED <<jobsTable, lock, workersTable, registry, plan, picks, stuck,
                 reaping, calls, budgets>>

\* enqueue_due_cycles, one product whose interval is over.
EnqueueDueCycle(p) ==
  /\ loop = "auto"
  /\ p \in AutoProducts
  /\ ~PendingPrep(p)
  /\ InsertCycle(p)
  /\ UNCHANGED <<lock, workersTable, registry, thread, loopVars, calls, budgets>>

\* mutant: a key that was picked is not added to the busy ones
ClaimPrepReadAll ==
  /\ loop = "auto"
  /\ picks' = {j \in Jobs : status[j] = "queued" /\ IsPrep(j) /\ Key(j) \notin BusyKeys}
  /\ IF picks' = {} THEN EndTick ELSE loop' = "assignPrep" /\ UNCHANGED tick
  /\ UNCHANGED <<jobsTable, lock, workersTable, registry, thread, plan, toRun, stuck,
                 reaping, calls, budgets>>

\* claim_prep_jobs chooses: one preparation job per free key, oldest first.
ClaimPrepRead ==
  /\ loop = "auto"
  /\ picks' = FirstOfKey({j \in Jobs : status[j] = "queued" /\ IsPrep(j)})
  /\ IF picks' = {} THEN EndTick ELSE loop' = "assignPrep" /\ UNCHANGED tick
  /\ UNCHANGED <<jobsTable, lock, workersTable, registry, thread, plan, toRun, stuck,
                 reaping, calls, budgets>>

\* The rows it chose are set to running, whatever their status is by now.
ClaimPrepWrite ==
  /\ loop = "assignPrep"
  /\ \A j \in picks : Row(j)
  /\ status' = [j \in Jobs |-> IF j \in picks THEN "running" ELSE status[j]]
  /\ age'    = [j \in Jobs |-> IF j \in picks THEN 0 ELSE age[j]]
  /\ toRun'  = {[job |-> j, role |-> "prep"] : j \in picks}
  /\ loop'   = "dispatchPrep"
  /\ picks'  = {}
  /\ UNCHANGED <<kind, product, genut, lock, workersTable, registry, thread,
                 tick, plan, stuck, reaping, calls, budgets>>

\* The UPDATE of a row that is gone by now raises, and none of them runs.
ClaimPrepLost ==
  /\ loop = "assignPrep"
  /\ \E j \in picks : ~Row(j)
  /\ loop' = "claim"
  /\ picks' = {}
  /\ UNCHANGED <<jobsTable, lock, workersTable, registry, thread, tick, plan, toRun,
                 stuck, reaping, calls, budgets>>

\* mutants: only the workers, only the locks
ReleaseWorkersOnly(st) ==
  /\ UNCHANGED <<lock, enabled>>
  /\ LET stale == {w \in Workers : /\ workerStatus[w] = "busy"
                                   /\ current[w] = None \/ NoLongerLive(current[w], st)}
     IN /\ workerStatus' = [w \in Workers |-> IF w \in stale THEN "idle" ELSE workerStatus[w]]
        /\ current' = [w \in Workers |-> IF w \in stale THEN None ELSE current[w]]

ReleaseLocksOnly(st) ==
  /\ lock' = [p \in Products |->
       IF lock[p] # None /\ NoLongerLive(lock[p], st) THEN None ELSE lock[p]]
  /\ UNCHANGED workersTable

\* release_stale_locks, on job statuses st.
ReleaseStale(st) ==
  /\ lock' = [p \in Products |->
       IF lock[p] # None /\ NoLongerLive(lock[p], st) THEN None ELSE lock[p]]
  /\ LET stale == {w \in Workers : /\ workerStatus[w] = "busy"
                                   /\ current[w] = None \/ NoLongerLive(current[w], st)}
     IN /\ workerStatus' = [w \in Workers |-> IF w \in stale THEN "idle" ELSE workerStatus[w]]
        /\ current' = [w \in Workers |-> IF w \in stale THEN None ELSE current[w]]
  /\ UNCHANGED enabled

ReleaseStaleLocks ==
  /\ loop = "sweep"
  /\ ReleaseStale(status)
  /\ loop' = "reap"
  /\ UNCHANGED <<jobsTable, registry, thread, tick, plan, picks, toRun, stuck,
                 reaping, calls, budgets>>

\* mutant: the test on the registered process is the wrong way round
ReapScanInverted ==
  /\ loop = "reap"
  /\ stuck' = {j \in Jobs : Running(j) /\ age[j] > 0 /\ j \in procs}
  /\ loop' = IF stuck' = {} THEN "claim" ELSE "reapKill"
  /\ UNCHANGED <<jobsTable, lock, workersTable, registry, thread, tick, plan, picks,
                 toRun, reaping, calls, budgets>>

\* mutant: the limit is not compared
ReapScanAnyAge ==
  /\ loop = "reap"
  /\ stuck' = {j \in Jobs : Running(j) /\ j \notin procs}
  /\ loop' = IF stuck' = {} THEN "claim" ELSE "reapKill"
  /\ UNCHANGED <<jobsTable, lock, workersTable, registry, thread, tick, plan, picks,
                 toRun, reaping, calls, budgets>>

\* reap_stuck_jobs, the scan: over the limit without a registered process, or
\* over twice the limit.
ReapScan ==
  /\ loop = "reap"
  /\ stuck' = {j \in Jobs : Running(j) /\ (age[j] = 2 \/ (age[j] = 1 /\ j \notin procs))}
  /\ loop' = IF stuck' = {} THEN "claim" ELSE "reapKill"
  /\ UNCHANGED <<jobsTable, lock, workersTable, registry, thread, tick, plan, picks,
                 toRun, reaping, calls, budgets>>

\* process_registry.cancel: flag the job and kill its process tree.
ReapKill ==
  /\ loop = "reapKill"
  /\ \E j \in stuck : /\ reaping' = j
                      /\ canceled' = canceled \cup {j}
  /\ loop' = "reapFinish"
  /\ UNCHANGED <<jobsTable, lock, workersTable, procs, thread, tick, plan, picks,
                 toRun, stuck, calls, budgets>>

\* Then finish it as failed and unregister it, which drops the flag again.
\* The session still holds the row of the scan's last job and reads the others
\* anew, so the guard may or may not see that a woken thread was faster.  A row
\* that is gone is noticed by the second kind of session only (ReapLost).
ReapFinish ==
  LET j == reaping IN
  /\ loop = "reapFinish"
  /\ \E v \in {Fresh(j), [Fresh(j) EXCEPT !.status = "running"]} :
       FinishJob(j, v, "failed")
  /\ Forget(j)
  /\ stuck' = stuck \ {j}
  /\ reaping' = None
  /\ loop' = IF stuck' = {} THEN "claim" ELSE "reapKill"
  /\ UNCHANGED <<thread, tick, plan, picks, toRun, calls, budgets>>

\* The UPDATE of a row that was deleted since the scan raises.
ReapLost ==
  /\ loop = "reapFinish" /\ ~Row(reaping)
  /\ loop' = "claim"
  /\ stuck' = {} /\ reaping' = None
  /\ UNCHANGED <<jobsTable, lock, workersTable, registry, thread, tick, plan, picks,
                 toRun, calls, budgets>>

\* A transaction of the tick fails: the loop swallows the error and starts the
\* next tick.
LoopError ==
  /\ loop \in {"claim", "load", "assign", "auto", "assignPrep", "sweep", "reap",
              "reapFinish"}
  /\ Spend
  /\ loop' = "claim"
  /\ plan' = {} /\ picks' = {} /\ stuck' = {} /\ reaping' = None
  /\ UNCHANGED <<jobsTable, lock, workersTable, registry, thread, tick, toRun,
                 calls, crashes>>

LoopStep == \/ ClaimRead \/ ClaimLoad \/ ClaimWrite \/ ClaimAborts \/ Dispatch
            \/ ClaimPrepRead \/ ClaimPrepWrite \/ ClaimPrepLost
            \/ ReleaseStaleLocks \/ ReapScan \/ ReapKill \/ ReapFinish

-----------------------------------------------------------------------------
(* HTTP handlers *)

Offered(op) == ServerUp /\ op \in Ops

\* Room for one more call between two of its transactions.
CallSlot == Cardinality(killJobs) + Cardinality(scanProducts) + Cardinality(cycleProducts)
              < MaxCalls

SubmitRequest(p) ==
  /\ Offered("submit")
  /\ \E i \in Jobs : InsertJob(i, "genut", p)
  /\ UNCHANGED <<lock, workersTable, registry, thread, loopVars, calls, budgets>>

\* A finished job is queued again as a new row of the same kind.
RerunJob(j) ==
  /\ Offered("rerun")
  /\ status[j] \in Terminal
  /\ \E i \in Jobs : InsertJob(i, kind[j], product[j])
  /\ UNCHANGED <<lock, workersTable, registry, thread, loopVars, calls, budgets>>

\* cancel_job answers 409 unless it reads the job as running...
CancelJob(j) ==
  /\ Offered("cancel") /\ CallSlot
  /\ Row(j) /\ Running(j)
  /\ killJobs' = killJobs \cup {j}
  /\ UNCHANGED <<jobsTable, lock, workersTable, registry, thread, loopVars,
                 scanProducts, cycleProducts, budgets>>

\* ...and then flags the job, whatever became of it (process_registry.cancel).
Kill(j) ==
  /\ j \in killJobs
  /\ killJobs' = killJobs \ {j}
  /\ canceled' = canceled \cup {j}
  /\ UNCHANGED <<jobsTable, lock, workersTable, procs, thread, loopVars,
                 scanProducts, cycleProducts, budgets>>

\* cancel_all_jobs: the queued jobs of the product are canceled in one UPDATE...
CancelAllJobs(p) ==
  /\ Offered("cancelAll") /\ CallSlot
  /\ status' = [j \in Jobs |-> IF status[j] = "queued" /\ product[j] = p
                               THEN "canceled" ELSE status[j]]
  /\ scanProducts' = scanProducts \cup {p}
  /\ UNCHANGED <<kind, product, genut, age, lock, workersTable, registry, thread,
                 loopVars, killJobs, cycleProducts, budgets>>

\* ...and those that run by now are flagged one by one.
CancelAllScan(p) ==
  /\ p \in scanProducts
  /\ scanProducts' = scanProducts \ {p}
  /\ killJobs' = killJobs \cup {j \in Jobs : Running(j) /\ product[j] = p}
  /\ UNCHANGED <<jobsTable, lock, workersTable, registry, thread, loopVars,
                 cycleProducts, budgets>>

\* The foreign key of product_locks refuses to delete a job that owns a lock.
Deletable(j) == status[j] \in Terminal /\ \A p \in Products : lock[p] # j

DeleteJob(j) ==
  /\ Offered("delete")
  /\ Deletable(j)
  /\ DeleteRows({j})
  /\ UNCHANGED <<lock, workersTable, registry, thread, loopVars, calls, budgets>>

\* All finished jobs of a product in one transaction: one refusal fails them all.
DeleteFinishedJobs(p) ==
  LET finished == {j \in Jobs : status[j] \in Terminal /\ product[j] = p} IN
  /\ Offered("deleteFinished")
  /\ finished # {}
  /\ \A j \in finished : Deletable(j)
  /\ DeleteRows(finished)
  /\ UNCHANGED <<lock, workersTable, registry, thread, loopVars, calls, budgets>>

\* run_auto_now: look for a pending preparation job...
RunAutoNow(p) ==
  /\ Offered("runNow") /\ CallSlot
  /\ p \in AutoProducts
  /\ ~PendingPrep(p)
  /\ cycleProducts' = cycleProducts \cup {p}
  /\ UNCHANGED <<jobsTable, lock, workersTable, registry, thread, loopVars,
                 killJobs, scanProducts, budgets>>

\* ...and insert the pair.
RunAutoNowInsert(p) ==
  /\ p \in cycleProducts
  /\ InsertCycle(p)
  /\ cycleProducts' = cycleProducts \ {p}
  /\ UNCHANGED <<lock, workersTable, registry, thread, loopVars,
                 killJobs, scanProducts, budgets>>

\* update_genut turns a worker on or off.
SetEnabled(w) ==
  /\ Offered("enable")
  /\ enabled' = [enabled EXCEPT ![w] = ~@]
  /\ UNCHANGED <<jobsTable, lock, workerStatus, current, registry, thread, loopVars,
                 calls, budgets>>

ClientStep ==
  \/ \E p \in Products : \/ SubmitRequest(p) \/ CancelAllJobs(p) \/ CancelAllScan(p)
                         \/ DeleteFinishedJobs(p)
                         \/ RunAutoNow(p) \/ RunAutoNowInsert(p)
  \/ \E j \in Jobs : RerunJob(j) \/ CancelJob(j) \/ Kill(j) \/ DeleteJob(j)
  \/ \E w \in Workers : SetEnabled(w)

-----------------------------------------------------------------------------
(* Time, crashes, restart *)

\* A running job passes the runtime limit, or twice the limit.
Age(j) ==
  /\ Row(j) /\ Running(j) /\ age[j] < 2
  /\ SlowThreads \/ ~Attended(j)
  /\ age' = [age EXCEPT ![j] = @ + 1]
  /\ UNCHANGED <<status, kind, product, genut, lock, workersTable, registry, thread,
                 loopVars, calls, budgets>>

\* The process dies: the database is what is left.
Crash ==
  /\ ServerUp /\ crashes < MaxCrashes
  /\ crashes' = crashes + 1
  /\ loop' = "boot" /\ tick' = 0
  /\ plan' = {} /\ picks' = {} /\ toRun' = {} /\ stuck' = {} /\ reaping' = None
  /\ procs' = {} /\ canceled' = {}
  /\ thread' = [t \in Threads |-> IdleThread]
  /\ killJobs' = {} /\ scanProducts' = {} /\ cycleProducts' = {}
  /\ UNCHANGED <<jobsTable, lock, workersTable, faults>>

\* mutant: all rows
InterruptAll == [j \in Jobs |-> IF Row(j) THEN "interrupted" ELSE status[j]]

\* mark_interrupted_jobs
Interrupted == [j \in Jobs |-> IF Running(j) THEN "interrupted" ELSE status[j]]

\* Scheduler.start, before the server answers requests.
Boot ==
  /\ loop = "boot"
  /\ status' = Interrupted
  /\ age' = [j \in Jobs |-> 0]
  /\ ReleaseStale(Interrupted)
  /\ loop' = "claim"
  /\ UNCHANGED <<kind, product, genut, registry, thread, tick, plan, picks, toRun,
                 stuck, reaping, calls, budgets>>

\* start swallows a failure of either transaction and goes on.
BootFails ==
  /\ loop = "boot"
  /\ Spend
  /\ \/ UNCHANGED <<status, age>>
     \/ status' = Interrupted /\ age' = [j \in Jobs |-> 0]
  /\ loop' = "claim"
  /\ UNCHANGED <<kind, product, genut, lock, workersTable, registry, thread, tick,
                 plan, picks, toRun, stuck, reaping, calls, crashes>>

-----------------------------------------------------------------------------
Init ==
  /\ status  = [j \in Jobs |-> "none"]
  /\ kind    = [j \in Jobs |-> "genut"]
  /\ product = [j \in Jobs |-> None]
  /\ genut   = [j \in Jobs |-> None]
  /\ age     = [j \in Jobs |-> 0]
  /\ lock    = [p \in Products |-> None]
  /\ enabled = [w \in Workers |-> TRUE]
  /\ workerStatus = [w \in Workers |-> "idle"]
  /\ current = [w \in Workers |-> None]
  /\ procs = {} /\ canceled = {}
  /\ thread = [t \in Threads |-> IdleThread]
  /\ loop = "boot" /\ tick = 0
  /\ plan = {} /\ picks = {} /\ toRun = {} /\ stuck = {} /\ reaping = None
  /\ killJobs = {} /\ scanProducts = {} /\ cycleProducts = {}
  /\ faults = 0 /\ crashes = 0

Next ==
  \/ \E t \in Threads : ThreadStep(t) \/ ThreadFault(t)
  \/ LoopStep
  \/ \E p \in Products : EnqueueDueCycle(p)
  \/ ReapLost \/ LoopError
  \/ ClientStep
  \/ \E j \in Jobs : Age(j)
  \/ Crash \/ Boot \/ BootFails

Spec == Init /\ [][Next]_vars

\* The event loop keeps ticking, threads keep running (every subprocess has a
\* timeout), time passes.  Clients, faults and crashes are under no obligation.
Fairness ==
  /\ WF_vars(LoopStep)
  /\ WF_vars(Boot)
  /\ \A t \in Threads : /\ WF_vars(StartJob(t) \/ StartPrep(t))
                        /\ WF_vars(RunReturns(t))
                        /\ WF_vars(Unregister(t))
                        /\ WF_vars(Finish(t))
  /\ \A j \in Jobs : WF_vars(Age(j))

FairSpec == Spec /\ Fairness

-----------------------------------------------------------------------------
(* Properties *)

JobsTableOK ==
  /\ status  \in [Jobs -> RowStatus \cup {"none", "deleted"}]
  /\ kind    \in [Jobs -> Kinds]
  /\ product \in [Jobs -> Products \cup {None}]
  /\ genut   \in [Jobs -> Workers \cup {None}]
  /\ age     \in [Jobs -> 0..2]
  /\ \A j \in Jobs : Row(j) => product[j] \in Products

LockTableOK == lock \in [Products -> Jobs \cup {None}]

WorkersTableOK ==
  /\ enabled \in [Workers -> BOOLEAN]
  /\ workerStatus \in [Workers -> {"idle", "busy"}]
  /\ current \in [Workers -> Jobs \cup {None}]

RegistryOK == procs \subseteq Jobs /\ canceled \subseteq Jobs

ThreadsOK == /\ thread \in [Threads -> Thread]
             /\ \A t \in Threads :
                  /\ thread[t].pc # "idle" => thread[t].job \in Jobs
                  /\ thread[t].pc = "run"  => thread[t].seen.product \in Products

LoopOK ==
  /\ loop \in LoopPhases
  /\ tick \in 0..(SweepEvery - 1)
  /\ plan \subseteq Assignment /\ picks \subseteq Jobs
  /\ toRun \subseteq Task /\ stuck \subseteq Jobs
  /\ reaping \in Jobs \cup {None}
  /\ loop = "reapFinish" => reaping \in Jobs

CallsOK ==
  killJobs \subseteq Jobs /\ scanProducts \subseteq Products /\ cycleProducts \subseteq Products

BudgetsOK == faults \in 0..MaxFaults /\ crashes \in 0..MaxCrashes

\* Every variable has its type; every row has a product, an active thread and an
\* active reaper have a job.
TypeOK == /\ JobsTableOK /\ LockTableOK /\ WorkersTableOK /\ RegistryOK
          /\ ThreadsOK /\ LoopOK /\ CallsOK /\ BudgetsOK

\* A GENUT job runs only while the lock row of its product names it, so no
\* late finish of another job, sweep or reap may take that row away
\* (engine.claim_jobs, lock.release_lock).
RunningHoldsLock ==
  \A j \in Jobs : Running(j) /\ ~IsPrep(j) => lock[product[j]] = j

\* At most one job of any kind runs per (project, name): GENUT jobs of products
\* with the same key, and GENUT jobs and preparation jobs, exclude each other.
OneRunningPerKey ==
  \A i, j \in Jobs : Running(i) /\ Running(j) /\ Key(i) = Key(j) => i = j

\* The worker of a running GENUT job is busy with that very job, hence serves
\* no other (engine.finish_job, the ownership test on current_job_id).
WorkerServesItsJob ==
  \A j \in Jobs : Running(j) /\ ~IsPrep(j) =>
    /\ genut[j] # None
    /\ workerStatus[genut[j]] = "busy" /\ current[genut[j]] = j

\* Two runners never work in checkouts of the same key at once: what the lock,
\* the busy keys and the grace given to live processes are there for.
RunnersApart ==
  \A t, u \in Threads :
    /\ t # u /\ thread[t].pc = "run" /\ thread[u].pc = "run"
    => KeyOf[thread[t].seen.product] # KeyOf[thread[u].seen.product]

\* As long as no transaction failed, every running job has a thread that runs
\* it or is about to: a restart leaves no orphan (Scheduler.start).
NoOrphans ==
  ServerUp /\ faults = 0 => \A j \in Jobs : Running(j) => Attended(j)

\* Locks and workers of jobs that do not run.
StaleLocks  == {p \in Products : lock[p] # None /\ ~Running(lock[p])}
IdleButBusy == {w \in Workers : /\ workerStatus[w] = "busy"
                                /\ current[w] = None \/ ~Running(current[w])}

\* No end of a job, by its own thread, a late one, the watchdog or a client, leaves its
\* lock or its worker behind (finish_job): only a failed start does, and the next sweep
\* or start that goes through leaves none (release_stale_locks).
OnlyStartsLeak ==
  [][/\ loop # "boot" => /\ StaleLocks' \subseteq StaleLocks
                         /\ IdleButBusy' \subseteq IdleButBusy
     /\ loop \in {"sweep", "boot"} /\ loop' \notin {loop, "boot"} /\ UNCHANGED faults
          => StaleLocks' = {} /\ IdleButBusy' = {}]_vars

\* A finished job keeps its result until it is deleted (the terminal guard of
\* finish_job).
ResultsAreFinal ==
  [][\A j \in Jobs : status[j] \in Terminal => status'[j] \in {status[j], "none", "deleted"}]_vars

\* Within a key and a class of jobs (GENUT, preparation) the oldest queued job
\* starts first: a scan never overtakes the diff queued before it.
StartsInOrder ==
  [][\A i, j \in Jobs :
       /\ status[j] = "queued" /\ status'[j] = "running"
       /\ status[i] = "queued" /\ Key(i) = Key(j) /\ IsPrep(i) = IsPrep(j)
       => i >= j]_vars

\* A job canceled while it was queued is never run (cancel_all_jobs: "no double
\* handling even if it races with the scheduler's claim").
CanceledJobsStayCanceled ==
  [][\A j \in Jobs : status[j] = "canceled" => status'[j] # "running"]_vars

\* Whatever happens to its thread, a running job ends (the watchdog at last).
RunningEnds == \A j \in Jobs : Running(j) ~> ~Running(j)

\* A lock is given back and a busy worker becomes idle again, also after a job that never
\* released them.
HoldingsAreFreed ==
  /\ \A p \in Products : lock[p] # None ~> lock[p] = None
  /\ \A w \in Workers : workerStatus[w] = "busy" ~> workerStatus[w] = "idle"

\* A queued job does not stay queued forever.
QueueMoves == \A j \in Jobs : status[j] = "queued" ~> status[j] # "queued"

=============================================================================
