--------------------------- MODULE AttendanceProofs ---------------------------
(***************************************************************************)
(* Every running job has one thread and one worker, for all values of the  *)
(* constants with ~ReuseIds and ~SlowThreads and as long as no job is      *)
(* canceled that a claim has chosen.                                       *)
(***************************************************************************)
EXTENDS Attendance, JobSchedulerProofs

-----------------------------------------------------------------------------
(* Parts of a step *)

\* A finished job keeps its result or disappears.
ResultsStay ==
  \A j \in Jobs : status[j] \in Terminal => status'[j] \in {status[j], "none", "deleted"}

\* No job starts or ends, and what a claim has chosen stays queued.
RowsRest ==
  /\ \A j \in Jobs : /\ Running(j)' <=> Running(j)
                     /\ Running(j) => /\ kind'[j] = kind[j] /\ product'[j] = product[j]
                                      /\ genut'[j] = genut[j] /\ age'[j] = age[j]
  /\ \A r \in plan : status[r.job] = "queued" => status'[r.job] = "queued"
  /\ \A j \in picks : status[j] = "queued" => status'[j] = "queued"
  /\ ResultsStay

\* Idle workers stay idle and those of running jobs stay busy.
WorkersRest ==
  \A w \in Workers :
    /\ workerStatus[w] = "idle" => workerStatus'[w] = "idle"
    /\ workerStatus[w] = "busy" /\ current[w] \in Jobs /\ Running(current[w]) =>
         workerStatus'[w] = "busy" /\ current'[w] = current[w]

\* No fault is forgotten.
FaultsStay == faults' = 0 => faults = 0

\* Where the rows and the threads rest, the attendants do.
LEMMA AttendantsRest ==
  ASSUME TypeOK, JobsAreAttended, RowsRest, UNCHANGED <<thread, toRun>>
  PROVE  /\ OneAttendant' /\ AttendedRun' /\ SessionsAgree'
         /\ \A j \in Jobs : Attended(j)' <=> Attended(j)
  <1>1. /\ \A t \in Threads : Busy(t) => thread[t].job \in Jobs
        /\ \A k \in toRun : k.job \in Jobs
    BY DEF TypeOK, ThreadsOK, LoopOK, Busy, Task
  <1>2. \A t \in Threads : /\ Busy(t)' <=> Busy(t)
                           /\ thread[t].pc \in {"run", "unregister", "finish"} => Busy(t)
    BY DEF Busy
  <1>3. OneAttendant'
    BY DEF JobsAreAttended, OneAttendant, Busy
  <1>4. AttendedRun'
    BY <1>1 DEF JobsAreAttended, AttendedRun, RowsRest, Busy, IsPrep
  <1>5. SessionsAgree'
    BY <1>1, <1>2 DEF JobsAreAttended, SessionsAgree, AttendedRun, RowsRest
  <1> QED
    BY <1>3, <1>4, <1>5 DEF Attended

\* Where the rows and the workers rest, the workers serve their jobs.
LEMMA ServiceRests ==
  ASSUME TypeOK, JobsAreAttended, RowsRest, WorkersRest
  PROVE  WorkerServesItsJob'
  <1> SUFFICES ASSUME NEW j \in Jobs, Running(j)', ~IsPrep(j)'
               PROVE  /\ genut'[j] # None
                      /\ workerStatus'[genut'[j]] = "busy" /\ current'[genut'[j]] = j
    BY DEF WorkerServesItsJob
  <1>1. Running(j) /\ ~IsPrep(j) /\ genut'[j] = genut[j]
    BY DEF RowsRest, IsPrep
  <1>2. /\ genut[j] \in Workers /\ genut[j] # None
        /\ workerStatus[genut[j]] = "busy" /\ current[genut[j]] = j
    BY <1>1 DEF JobsAreAttended, WorkerServesItsJob, TypeOK, JobsTableOK
  <1> QED
    BY <1>1, <1>2 DEF WorkersRest

\* And what a claim has chosen stays free.
LEMMA ChoiceRests ==
  ASSUME TypeOK, JobsAreAttended, RowsRest, WorkersRest,
         plan' \subseteq plan, picks' \subseteq picks
  PROVE  PlanIsFree'
  BY DEF TypeOK, LoopOK, Assignment, JobsAreAttended, PlanIsFree, RowsRest, WorkersRest

\* A step that leaves the threads and the loop alone and rests the rows and workers.
LEMMA RestKeeps ==
  ASSUME TypeOK, JobsAreAttended, RowsRest, WorkersRest, FaultsStay,
         UNCHANGED <<thread, toRun, plan, picks, stuck, reaping, loop>>
  PROVE  JobsAreAttended' /\ ResultsStay
  <1>1. /\ OneAttendant' /\ AttendedRun' /\ SessionsAgree'
        /\ \A j \in Jobs : Attended(j)' <=> Attended(j)
    BY AttendantsRest
  <1>2. WorkerServesItsJob' /\ PlanIsFree'
    BY ServiceRests, ChoiceRests
  <1>3. ReapsUnattended'
    BY <1>1 DEF TypeOK, LoopOK, JobsAreAttended, ReapsUnattended, RowsRest
  <1>4. LoopAlone'
    BY DEF JobsAreAttended, LoopAlone, Busy
  <1>5. NoOrphans'
    BY <1>1 DEF JobsAreAttended, NoOrphans, ServerUp, RowsRest, FaultsStay
  <1> QED
    BY <1>1, <1>2, <1>3, <1>4, <1>5 DEF JobsAreAttended, RowsRest

-----------------------------------------------------------------------------
(* The operators by which nothing starts or ends *)

\* What does not change rests.
LEMMA UnchangedRests ==
  /\ UNCHANGED jobsTable => RowsRest
  /\ UNCHANGED <<workerStatus, current>> => WorkersRest
  /\ UNCHANGED faults => FaultsStay
  BY DEF jobsTable, RowsRest, WorkersRest, FaultsStay, ResultsStay, Running

\* A fault is counted.
LEMMA SpendStays ==
  ASSUME TypeOK, Spend
  PROVE  faults' # 0
  BY ConstantsAssumption DEF TypeOK, BudgetsOK, Spend

\* An insert takes an id no job has.
LEMMA InsertRests ==
  ASSUME TypeOK, NEW i \in Jobs, NEW k, NEW p, InsertJob(i, k, p)
  PROVE  RowsRest
  <1>1. status[i] = "none"
    BY NextIdIsLatest DEF InsertJob
  <1>2. picks \subseteq Jobs /\ \A r \in plan : r.job \in Jobs
    BY DEF TypeOK, LoopOK, Assignment
  <1> QED
    BY <1>1, <1>2 DEF TypeOK, JobsTableOK, InsertJob, RowsRest, ResultsStay, Running, Terminal

\* So does a cycle.
LEMMA CycleRests ==
  ASSUME TypeOK, NEW p \in Products, InsertCycle(p)
  PROVE  RowsRest
  <1>1. PICK i \in Jobs, k \in Jobs :
          /\ NextId(i)
          /\ k = i + 1
          /\ status'  = [status  EXCEPT ![i] = "queued", ![k] = "queued"]
          /\ kind'    = [kind    EXCEPT ![i] = "auto_diff", ![k] = "auto_scan"]
          /\ product' = [product EXCEPT ![i] = p, ![k] = p]
          /\ UNCHANGED <<genut, age>>
    BY DEF InsertCycle
  <1>2. status[i] = "none" /\ status[k] = "none"
    BY <1>1, NextIdIsLatest, ConstantsAssumption DEF NextId
  <1>3. picks \subseteq Jobs /\ \A r \in plan : r.job \in Jobs
    BY DEF TypeOK, LoopOK, Assignment
  <1> QED
    BY <1>1, <1>2, <1>3 DEF TypeOK, JobsTableOK, RowsRest, ResultsStay, Running, Terminal

\* Only finished jobs are deleted.
LEMMA DeleteRests ==
  ASSUME TypeOK, NEW S, \A j \in S : status[j] \in Terminal, DeleteRows(S)
  PROVE  RowsRest
  <1>1. picks \subseteq Jobs /\ \A r \in plan : r.job \in Jobs
    BY DEF TypeOK, LoopOK, Assignment
  <1>2. \A j \in Jobs : status'[j] = status[j] \/ (j \in S /\ status'[j] \in {"none", "deleted"})
    BY DEF DeleteRows
  <1>3. \A j \in Jobs : j \notin S => /\ kind'[j] = kind[j] /\ product'[j] = product[j]
                                      /\ genut'[j] = genut[j] /\ age'[j] = age[j]
    BY DEF DeleteRows
  <1> QED
    BY <1>1, <1>2, <1>3 DEF RowsRest, ResultsStay, Running, Terminal

\* The sweep frees no worker of a running job.
LEMMA ReleaseStaleRests ==
  ASSUME TypeOK, ReleaseStale(status)
  PROVE  WorkersRest
  BY ConstantsAssumption
     DEF TypeOK, WorkersTableOK, ReleaseStale, NoLongerLive, WorkersRest, Running

-----------------------------------------------------------------------------
(* The handlers *)

\* No request starts or ends a job.
LEMMA ClientKeeps ==
  ASSUME TypeOK, JobsAreAttended, ClaimUndisturbed, ClientStep
  PROVE  JobsAreAttended' /\ ResultsStay
  <1> USE RestKeeps, UnchangedRests
  <1> USE DEF workersTable, loopVars, budgets
  <1>1. ASSUME NEW p \in Products, SubmitRequest(p)
        PROVE  JobsAreAttended' /\ ResultsStay
    BY <1>1, InsertRests DEF SubmitRequest
  <1>2. ASSUME NEW p \in Products, CancelAllJobs(p)
        PROVE  JobsAreAttended' /\ ResultsStay
    <2>1. picks \subseteq Jobs /\ \A r \in plan : r.job \in Jobs
      BY DEF TypeOK, LoopOK, Assignment
    <2>2. RowsRest
      BY <1>2, <2>1 DEF CancelAllJobs, ClaimUndisturbed, RowsRest, ResultsStay, Running, Terminal
    <2> QED
      BY <1>2, <2>2 DEF CancelAllJobs
  <1>3. ASSUME NEW p \in Products, CancelAllScan(p)
        PROVE  JobsAreAttended' /\ ResultsStay
    BY <1>3 DEF CancelAllScan
  <1>4. ASSUME NEW p \in Products, DeleteFinishedJobs(p)
        PROVE  JobsAreAttended' /\ ResultsStay
    BY <1>4, DeleteRests DEF DeleteFinishedJobs
  <1>5. ASSUME NEW p \in Products, RunAutoNow(p)
        PROVE  JobsAreAttended' /\ ResultsStay
    BY <1>5 DEF RunAutoNow
  <1>6. ASSUME NEW p \in Products, RunAutoNowInsert(p)
        PROVE  JobsAreAttended' /\ ResultsStay
    BY <1>6, CycleRests DEF RunAutoNowInsert
  <1>7. ASSUME NEW j \in Jobs, RerunJob(j)
        PROVE  JobsAreAttended' /\ ResultsStay
    BY <1>7, InsertRests DEF RerunJob
  <1>8. ASSUME NEW j \in Jobs, CancelJob(j)
        PROVE  JobsAreAttended' /\ ResultsStay
    BY <1>8 DEF CancelJob
  <1>9. ASSUME NEW j \in Jobs, Kill(j)
        PROVE  JobsAreAttended' /\ ResultsStay
    BY <1>9 DEF Kill
  <1>10. ASSUME NEW j \in Jobs, DeleteJob(j)
         PROVE  JobsAreAttended' /\ ResultsStay
    BY <1>10, DeleteRests DEF DeleteJob, Deletable
  <1>11. ASSUME NEW w \in Workers, SetEnabled(w)
         PROVE  JobsAreAttended' /\ ResultsStay
    BY <1>11 DEF SetEnabled
  <1> QED
    BY <1>1, <1>2, <1>3, <1>4, <1>5, <1>6, <1>7, <1>8, <1>9, <1>10, <1>11 DEF ClientStep

-----------------------------------------------------------------------------
(* Threads *)

\* Thread t goes on with its job.
GoesOn(t, th) ==
  /\ SetThread(t, th)
  /\ th.pc # "idle" /\ th.job = thread[t].job /\ th.role = thread[t].role
  /\ UNCHANGED <<toRun, plan, picks, stuck, reaping, loop>>

\* Threads that go on attend to the same jobs.
LEMMA GoingOnAttends ==
  ASSUME TypeOK, NEW t \in Threads, Busy(t), NEW th, GoesOn(t, th)
  PROVE  /\ \A u \in Threads : /\ Busy(u)' <=> Busy(u)
                               /\ thread'[u].job = thread[u].job
                               /\ thread'[u].role = thread[u].role
         /\ \A j \in Jobs : Attended(j)' <=> Attended(j)
  <1>1. \A u \in Threads : thread'[u] = IF u = t THEN th ELSE thread[u]
    BY DEF GoesOn, SetThread, TypeOK, ThreadsOK
  <1>2. \A u \in Threads : /\ Busy(u)' <=> Busy(u)
                           /\ thread'[u].job = thread[u].job
                           /\ thread'[u].role = thread[u].role
    BY <1>1 DEF GoesOn, Busy
  <1> QED
    BY <1>2 DEF Attended, Busy, GoesOn

\* A thread that goes on, with a session that agrees with the rows.
LEMMA GoingOnKeeps ==
  ASSUME TypeOK, JobsAreAttended, NEW t \in Threads, Busy(t), NEW th, GoesOn(t, th),
         UNCHANGED <<jobsTable, workersTable, faults>>,
         th.pc \in {"run", "unregister", "finish"} =>
           /\ th.seen.product = product[th.job]
           /\ th.role = "job" => /\ th.seen.status = "running"
                                 /\ th.seen.genut = genut[th.job]
                                 /\ th.seen.current = th.job
  PROVE  JobsAreAttended' /\ ResultsStay
  <1>1. /\ \A u \in Threads : /\ Busy(u)' <=> Busy(u)
                              /\ thread'[u].job = thread[u].job
                              /\ thread'[u].role = thread[u].role
        /\ \A j \in Jobs : Attended(j)' <=> Attended(j)
    BY GoingOnAttends
  <1>2. UNCHANGED <<status, kind, product, genut, age, workerStatus, current>>
    BY DEF jobsTable, workersTable
  <1>3. OneAttendant' /\ AttendedRun'
    BY <1>1, <1>2 DEF GoesOn, JobsAreAttended, OneAttendant, AttendedRun, Running, IsPrep
  <1>4. SessionsAgree'
    BY <1>2 DEF GoesOn, SetThread, TypeOK, ThreadsOK, JobsAreAttended, SessionsAgree
  <1>5. PlanIsFree' /\ WorkerServesItsJob'
    BY <1>2 DEF GoesOn, JobsAreAttended, PlanIsFree, WorkerServesItsJob, Running, IsPrep
  <1>6. ReapsUnattended' /\ LoopAlone'
    BY <1>1, <1>2 DEF GoesOn, JobsAreAttended, ReapsUnattended, LoopAlone, Running, TypeOK, LoopOK
  <1>7. NoOrphans'
    BY <1>1, <1>2 DEF GoesOn, JobsAreAttended, NoOrphans, ServerUp, Running
  <1>8. ResultsStay
    BY <1>2 DEF ResultsStay
  <1> QED
    BY <1>3, <1>4, <1>5, <1>6, <1>7, <1>8 DEF JobsAreAttended

\* Job j ends and its worker, if any, is idle again; no other row or worker is touched.
JobEnds(j) ==
  /\ \E result \in Terminal : status' = [status EXCEPT ![j] = result]
  /\ \A i \in Jobs : i # j => age'[i] = age[i]
  /\ UNCHANGED <<kind, product, genut>>
  /\ \A w \in Workers : /\ workerStatus[w] = "idle" => workerStatus'[w] = "idle"
                        /\ current[w] # j => workerStatus'[w] = workerStatus[w]
                                             /\ current'[w] = current[w]

\* finish_job does just that when its session has seen the job run.
LEMMA FinishJobEnds ==
  ASSUME TypeOK, NEW j \in Jobs, Running(j), NEW v, v.status = "running",
         v.current = j => v.genut = genut[j] /\ (genut[j] # None => current[genut[j]] = j),
         NEW result \in Terminal, FinishJob(j, v, result)
  PROVE  JobEnds(j)
  <1>1. /\ status' = [status EXCEPT ![j] = result]
        /\ age' = [age EXCEPT ![j] = 0]
        /\ UNCHANGED <<kind, product, genut>>
        /\ IF v.genut # None /\ v.current = j
           THEN /\ workerStatus' = [workerStatus EXCEPT ![v.genut] = "idle"]
                /\ current'      = [current EXCEPT ![v.genut] = None]
           ELSE UNCHANGED <<workerStatus, current>>
    BY DEF FinishJob, Row, RowStatus, Running, Terminal
  <1>2. \A i \in Jobs : i # j => age'[i] = age[i]
    BY <1>1 DEF TypeOK, JobsTableOK
  <1>3. \A w \in Workers : /\ workerStatus[w] = "idle" => workerStatus'[w] = "idle"
                           /\ current[w] # j => workerStatus'[w] = workerStatus[w]
                                                /\ current'[w] = current[w]
    BY <1>1 DEF TypeOK, WorkersTableOK
  <1> QED
    BY <1>1, <1>2, <1>3 DEF JobEnds

\* What the end of a job leaves: the other jobs run as before, in the hands of their workers.
LEMMA EndLeaves ==
  ASSUME TypeOK, JobsAreAttended, NEW j \in Jobs, Running(j), JobEnds(j),
         plan' \subseteq plan, picks' \subseteq picks
  PROVE  /\ \A i \in Jobs : Running(i)' <=> Running(i) /\ i # j
         /\ PlanIsFree' /\ WorkerServesItsJob' /\ ResultsStay
  <1>1. PICK result \in Terminal : status' = [status EXCEPT ![j] = result]
    BY DEF JobEnds
  <1>2. \A i \in Jobs : status'[i] = IF i = j THEN result ELSE status[i]
    BY <1>1 DEF TypeOK, JobsTableOK
  <1>3. \A i \in Jobs : Running(i)' <=> Running(i) /\ i # j
    BY <1>2 DEF Running, Terminal
  <1>4. PlanIsFree'
    <2>1. \A r \in plan' : r \in plan /\ r.job \in Jobs /\ r.worker \in Workers
      BY DEF TypeOK, LoopOK, Assignment
    <2>2. j \notin picks /\ picks \subseteq Jobs /\ \A r \in plan : r.job # j
      BY DEF JobsAreAttended, PlanIsFree, Running, TypeOK, LoopOK
    <2> QED
      BY <1>2, <2>1, <2>2 DEF JobsAreAttended, PlanIsFree, JobEnds
  <1>5. WorkerServesItsJob'
    <2> SUFFICES ASSUME NEW i \in Jobs, Running(i)', ~IsPrep(i)'
                 PROVE  /\ genut'[i] # None
                        /\ workerStatus'[genut'[i]] = "busy" /\ current'[genut'[i]] = i
      BY DEF WorkerServesItsJob
    <2>1. Running(i) /\ i # j /\ ~IsPrep(i) /\ genut'[i] = genut[i]
      BY <1>3 DEF JobEnds, IsPrep
    <2>2. /\ genut[i] \in Workers /\ genut[i] # None
          /\ workerStatus[genut[i]] = "busy" /\ current[genut[i]] = i
      BY <2>1 DEF JobsAreAttended, WorkerServesItsJob, TypeOK, JobsTableOK
    <2> QED
      BY <2>1, <2>2 DEF JobEnds
  <1>6. ResultsStay
    BY <1>2 DEF ResultsStay, Running, Terminal
  <1> QED
    BY <1>3, <1>4, <1>5, <1>6

\* A thread that is released has attended to its job alone.
LEMMA ReleaseAttends ==
  ASSUME TypeOK, JobsAreAttended, NEW t \in Threads, Busy(t), Release(t), UNCHANGED toRun
  PROVE  /\ \A u \in Threads : u # t => thread'[u] = thread[u]
         /\ \A u \in Threads : Busy(u)' <=> Busy(u) /\ u # t
         /\ \A j \in Jobs : Attended(j)' <=> Attended(j) /\ j # thread[t].job
  <1>1. thread' = [thread EXCEPT ![t] = IdleThread] /\ IdleThread.pc = "idle"
    BY DEF Release, SetThread, IdleThread
  <1>2. \A u \in Threads : thread'[u] = IF u = t THEN IdleThread ELSE thread[u]
    BY <1>1 DEF TypeOK, ThreadsOK
  <1>3. \A u \in Threads : Busy(u)' <=> Busy(u) /\ u # t
    BY <1>1, <1>2 DEF Busy
  <1>4. \A j \in Jobs : Attended(j)' <=> Attended(j) /\ j # thread[t].job
    BY <1>2, <1>3 DEF Attended, Busy, JobsAreAttended, OneAttendant
  <1> QED
    BY <1>2, <1>3, <1>4

\* A thread that ends its job keeps the rest attended.
LEMMA EndKeeps ==
  ASSUME TypeOK, JobsAreAttended, NEW t \in Threads, Busy(t), Release(t),
         JobEnds(thread[t].job), FaultsStay,
         UNCHANGED <<toRun, plan, picks, stuck, reaping, loop>>
  PROVE  JobsAreAttended' /\ ResultsStay
  <1> DEFINE j == thread[t].job
  <1>0. j \in Jobs /\ Running(j)
    BY DEF TypeOK, ThreadsOK, Busy, JobsAreAttended, AttendedRun
  <1>1. /\ \A i \in Jobs : Running(i)' <=> Running(i) /\ i # j
        /\ PlanIsFree' /\ WorkerServesItsJob' /\ ResultsStay
    BY <1>0, EndLeaves
  <1>2. /\ \A u \in Threads : u # t => thread'[u] = thread[u]
        /\ \A u \in Threads : Busy(u)' <=> Busy(u) /\ u # t
        /\ \A i \in Jobs : Attended(i)' <=> Attended(i) /\ i # j
    BY ReleaseAttends
  <1>3. /\ \A i \in Jobs : i # j => age'[i] = age[i]
        /\ UNCHANGED <<kind, product, genut>>
    BY DEF JobEnds
  <1>4. /\ \A u \in Threads : Busy(u) => thread[u].job \in Jobs
        /\ \A k \in toRun : k.job \in Jobs
        /\ \A u \in Threads : Busy(u) /\ u # t => thread[u].job # j
        /\ \A k \in toRun : k.job # j
    BY DEF TypeOK, ThreadsOK, LoopOK, Task, Busy, JobsAreAttended, OneAttendant
  <1>5. Attended(j)
    BY DEF Attended, Busy
  <1> HIDE DEF j
  <1>6. OneAttendant'
    BY <1>2 DEF JobsAreAttended, OneAttendant
  <1>7. AttendedRun'
    BY <1>1, <1>2, <1>3, <1>4 DEF JobsAreAttended, AttendedRun, IsPrep
  <1>8. SessionsAgree'
    <2>1. \A u \in Threads : thread'[u].pc \in {"run", "unregister", "finish"} =>
            u # t /\ thread'[u] = thread[u]
      BY <1>2 DEF Busy
    <2> QED
      BY <1>3, <2>1 DEF JobsAreAttended, SessionsAgree
  <1>9. ReapsUnattended' /\ LoopAlone'
    BY <1>1, <1>2, <1>3, <1>5
       DEF JobsAreAttended, ReapsUnattended, LoopAlone, TypeOK, LoopOK
  <1>10. NoOrphans'
    BY <1>1, <1>2 DEF JobsAreAttended, NoOrphans, ServerUp, FaultsStay
  <1> QED
    BY <1>1, <1>6, <1>7, <1>8, <1>9, <1>10 DEF JobsAreAttended

\* A thread lost to a fault leaves its job running without anyone.
LEMMA LossKeeps ==
  ASSUME TypeOK, JobsAreAttended, NEW t \in Threads, Busy(t), Release(t), Spend,
         UNCHANGED <<jobsTable, workersTable, toRun, plan, picks, stuck, reaping, loop>>
  PROVE  JobsAreAttended' /\ ResultsStay
  <1>1. /\ \A u \in Threads : u # t => thread'[u] = thread[u]
        /\ \A u \in Threads : Busy(u)' <=> Busy(u) /\ u # t
        /\ \A j \in Jobs : Attended(j)' <=> Attended(j) /\ j # thread[t].job
    BY ReleaseAttends
  <1>2. UNCHANGED <<status, kind, product, genut, age, workerStatus, current>>
    BY DEF jobsTable, workersTable
  <1>3. OneAttendant' /\ AttendedRun'
    BY <1>1, <1>2 DEF JobsAreAttended, OneAttendant, AttendedRun, Running, IsPrep
  <1>4. SessionsAgree'
    <2>1. \A u \in Threads : thread'[u].pc \in {"run", "unregister", "finish"} =>
            u # t /\ thread'[u] = thread[u]
      BY <1>1 DEF Busy
    <2> QED
      BY <1>2, <2>1 DEF JobsAreAttended, SessionsAgree
  <1>5. PlanIsFree' /\ WorkerServesItsJob'
    BY <1>2 DEF JobsAreAttended, PlanIsFree, WorkerServesItsJob, Running, IsPrep
  <1>6. ReapsUnattended' /\ LoopAlone'
    BY <1>1, <1>2 DEF JobsAreAttended, ReapsUnattended, LoopAlone, Running, TypeOK, LoopOK
  <1>7. NoOrphans' /\ ResultsStay
    BY <1>2, SpendStays DEF NoOrphans, ResultsStay
  <1> QED
    BY <1>3, <1>4, <1>5, <1>6, <1>7 DEF JobsAreAttended

\* What a thread at work knows of its job.
LEMMA BusyFacts ==
  ASSUME TypeOK, JobsAreAttended, NEW t \in Threads, Busy(t)
  PROVE  /\ thread[t] \in Thread /\ thread[t].job \in Jobs /\ Running(thread[t].job)
         /\ thread[t].role = "prep" <=> IsPrep(thread[t].job)
         /\ thread[t].outcome \in Terminal
         /\ thread[t].role = "job" => /\ genut[thread[t].job] \in Workers
                                      /\ genut[thread[t].job] # None
                                      /\ current[genut[thread[t].job]] = thread[t].job
  <1>1. /\ thread[t] \in Thread /\ thread[t].job \in Jobs /\ Running(thread[t].job)
        /\ thread[t].role = "prep" <=> IsPrep(thread[t].job)
    BY DEF TypeOK, ThreadsOK, Busy, JobsAreAttended, AttendedRun
  <1>2. thread[t].outcome \in Terminal /\ thread[t].role \in {"job", "prep"}
    BY <1>1 DEF Thread, Terminal
  <1> QED
    BY <1>1, <1>2 DEF JobsAreAttended, WorkerServesItsJob, TypeOK, JobsTableOK

\* Ending a job with what its session remembers, or with the rows as they are.
LEMMA EndWithEnds ==
  ASSUME TypeOK, JobsAreAttended, NEW t \in Threads, thread[t].pc = "finish",
         NEW v \in {thread[t].seen, Fresh(thread[t].job)}, NEW result \in Terminal,
         EndWith(t, v, result)
  PROVE  JobEnds(thread[t].job)
  <1> DEFINE j == thread[t].job
  <1>0. /\ Busy(t) /\ thread[t].role \in {"job", "prep"}
        /\ j \in Jobs /\ Running(j)
        /\ thread[t].role = "job" => genut[j] # None /\ current[genut[j]] = j
    BY BusyFacts DEF Busy, Thread
  <1>1. CASE thread[t].role = "job"
    <2>1. v.status = "running" /\ v.genut = genut[j] /\ v.current = j
      BY <1>0, <1>1 DEF JobsAreAttended, SessionsAgree, Fresh, Running
    <2>2. FinishJob(j, v, result)
      BY <1>1 DEF EndWith
    <2> QED
      BY <1>0, <1>1, <2>1, <2>2, FinishJobEnds
  <1>2. CASE thread[t].role = "prep"
    <2>1. FinishPrep(j, result) /\ Row(j)
      BY <1>0, <1>2 DEF EndWith, Running, Row, RowStatus
    <2>2. /\ status' = [status EXCEPT ![j] = result]
          /\ age' = [age EXCEPT ![j] = 0]
          /\ UNCHANGED <<kind, product, genut, workerStatus, current>>
      BY <2>1 DEF FinishPrep, workersTable
    <2>3. \A i \in Jobs : i # j => age'[i] = age[i]
      BY <2>2 DEF TypeOK, JobsTableOK
    <2> QED
      BY <2>2, <2>3 DEF JobEnds
  <1> QED
    BY <1>0, <1>1, <1>2

\* The steps of a thread, faults included, keep the jobs attended.
LEMMA ThreadKeeps ==
  ASSUME TypeOK, JobsAreAttended, NEW t \in Threads, ThreadStep(t) \/ ThreadFault(t)
  PROVE  JobsAreAttended' /\ ResultsStay
  <1> DEFINE j == thread[t].job
  <1>0. /\ Busy(t) => /\ j \in Jobs /\ Running(j) /\ Row(j) /\ thread[t].outcome \in Terminal
                      /\ thread[t].role = "prep" <=> IsPrep(j)
                      /\ thread[t].role = "job" => genut[j] # None /\ current[genut[j]] = j
        /\ thread[t].pc # "idle" => Busy(t)
    BY BusyFacts DEF Busy, Row, RowStatus, Running
  <1>1. CASE StartJob(t)
    <2> DEFINE th == [thread[t] EXCEPT !.pc = "run", !.seen = Fresh(j)]
    <2>1. Busy(t) /\ thread[t].role = "job" /\ thread[t] \in Thread
      BY <1>0, <1>1, BusyFacts DEF StartJob
    <2>2. /\ SetThread(t, th)
          /\ UNCHANGED <<jobsTable, workersTable, loopVars, budgets>>
      BY <1>0, <1>1, <2>1 DEF StartJob
    <2>3. /\ th.pc = "run" /\ th.job = j /\ th.role = "job"
          /\ th.seen = Fresh(j)
      BY <2>1 DEF Thread
    <2>4. /\ Fresh(j).product = product[j] /\ Fresh(j).status = "running"
          /\ Fresh(j).genut = genut[j] /\ Fresh(j).current = j
      BY <1>0, <2>1 DEF Fresh, Running
    <2> HIDE DEF th, j
    <2>5. GoesOn(t, th)
      BY <2>1, <2>2, <2>3 DEF GoesOn, loopVars, j
    <2> QED
      BY <2>1, <2>2, <2>3, <2>4, <2>5, GoingOnKeeps DEF budgets
  <1>2. CASE StartPrep(t)
    <2> DEFINE th == [thread[t] EXCEPT !.pc = "run", !.seen = Fresh(j)]
    <2>1. Busy(t) /\ thread[t].role = "prep" /\ thread[t] \in Thread
      BY <1>0, <1>2, BusyFacts DEF StartPrep
    <2>2. /\ SetThread(t, th)
          /\ UNCHANGED <<jobsTable, workersTable, loopVars, budgets>>
      BY <1>0, <1>2, <2>1 DEF StartPrep
    <2>3. /\ th.pc = "run" /\ th.job = j /\ th.role = "prep"
          /\ th.seen = Fresh(j)
      BY <2>1 DEF Thread
    <2>4. Fresh(j).product = product[j]
      BY DEF Fresh
    <2> HIDE DEF th, j
    <2>5. GoesOn(t, th)
      BY <2>1, <2>2, <2>3 DEF GoesOn, loopVars, j
    <2> QED
      BY <2>1, <2>2, <2>3, <2>4, <2>5, GoingOnKeeps DEF budgets
  <1>3. CASE Register(t)
    BY <1>3, RestKeeps, UnchangedRests DEF Register, workersTable, loopVars, budgets
  <1>4. CASE AutoEnqueue(t)
    BY <1>4, RestKeeps, UnchangedRests, InsertRests
       DEF AutoEnqueue, workersTable, loopVars, budgets
  <1>5. CASE RunReturns(t)
    <2>1. PICK o \in {"done", "failed"} :
            SetThread(t, [thread[t] EXCEPT
                            !.pc = "unregister",
                            !.outcome = IF j \in canceled THEN "canceled" ELSE o])
      BY <1>5 DEF RunReturns
    <2> DEFINE th == [thread[t] EXCEPT
                        !.pc = "unregister",
                        !.outcome = IF j \in canceled THEN "canceled" ELSE o]
    <2>2. Busy(t) /\ thread[t] \in Thread /\ thread[t].pc = "run"
      BY <1>0, <1>5, BusyFacts DEF RunReturns
    <2>3. /\ th.pc = "unregister" /\ th.job = j /\ th.role = thread[t].role
          /\ th.seen = thread[t].seen
      BY <2>2 DEF Thread
    <2>4. SetThread(t, th)
      BY <2>1
    <2> HIDE DEF th
    <2>5. GoesOn(t, th)
      BY <1>5, <2>3, <2>4 DEF GoesOn, RunReturns, loopVars
    <2> QED
      BY <1>5, <2>2, <2>3, <2>5, GoingOnKeeps
         DEF RunReturns, budgets, JobsAreAttended, SessionsAgree
  <1>6. CASE Unregister(t)
    <2> DEFINE th == [thread[t] EXCEPT !.pc = "finish"]
    <2>1. Busy(t) /\ thread[t] \in Thread /\ thread[t].pc = "unregister"
      BY <1>0, <1>6, BusyFacts DEF Unregister
    <2>2. /\ th.pc = "finish" /\ th.job = j /\ th.role = thread[t].role
          /\ th.seen = thread[t].seen
      BY <2>1 DEF Thread
    <2>3. SetThread(t, th)
      BY <1>6 DEF Unregister
    <2> HIDE DEF th
    <2>4. GoesOn(t, th)
      BY <1>6, <2>2, <2>3 DEF GoesOn, Unregister, loopVars
    <2> QED
      BY <1>6, <2>1, <2>2, <2>4, GoingOnKeeps
         DEF Unregister, budgets, JobsAreAttended, SessionsAgree
  <1>7. CASE Finish(t)
    <2>1. JobEnds(j)
      BY <1>0, <1>7, EndWithEnds DEF Finish
    <2> QED
      BY <1>0, <1>7, <2>1, EndKeeps, UnchangedRests DEF Finish, loopVars, budgets
  <1>8. CASE FinishFallback(t)
    <2> DEFINE result == IF thread[t].outcome = "canceled" THEN "canceled" ELSE "failed"
    <2>1. result \in Terminal
      BY DEF Terminal
    <2>2. EndWith(t, Fresh(j), result) /\ thread[t].pc = "finish"
      BY <1>8 DEF FinishFallback
    <2> HIDE DEF result
    <2>3. JobEnds(j)
      BY <2>1, <2>2, EndWithEnds
    <2>4. FaultsStay
      BY <1>8, SpendStays DEF FinishFallback, FaultsStay
    <2> QED
      BY <1>0, <1>8, <2>3, <2>4, EndKeeps DEF FinishFallback, loopVars
  <1>9. CASE StartJobFails(t) \/ FinishLost(t)
    BY <1>0, <1>9, LossKeeps DEF StartJobFails, FinishLost, loopVars
  <1> QED
    BY <1>1, <1>2, <1>3, <1>4, <1>5, <1>6, <1>7, <1>8, <1>9 DEF ThreadStep, ThreadFault

-----------------------------------------------------------------------------
(* The loop *)

\* What a claim has chosen it gets: no assignment is refused.
LEMMA NothingRefused ==
  ASSUME KeysAreOwned, JobsAreAttended, TypeOK
  PROVE  Refused = {} /\ Kept = plan
  <1>1. \A r \in plan : /\ Row(r.job) /\ r.product \in Products
                        /\ KeyOf[r.product] \notin BusyKeys
    BY DEF KeysAreOwned, PlanHolds, JobsAreAttended, PlanIsFree, Row, RowStatus,
           TypeOK, LoopOK, Assignment
  <1>2. \A r \in plan : lock[r.product] = None
    BY <1>1 DEF BusyKeys
  <1> QED
    BY <1>1, <1>2 DEF Refused, Kept

\* A step of the loop that starts and ends nothing, hands out nothing and sends the
\* watchdog after jobs without a thread only.
LEMMA LoopRests ==
  ASSUME TypeOK, TypeOK', JobsAreAttended, RowsRest, WorkersRest, FaultsStay,
         UNCHANGED <<thread, toRun>>, loop # "boot", loop' # "boot",
         loop' \notin {"dispatch", "dispatchPrep"} => toRun = {},
         PlanIsFree',
         \A j \in stuck' : Running(j) /\ ~Attended(j),
         loop' = "reapFinish" => reaping' \in stuck'
  PROVE  JobsAreAttended' /\ ResultsStay
  <1>1. /\ OneAttendant' /\ AttendedRun' /\ SessionsAgree'
        /\ \A j \in Jobs : Attended(j)' <=> Attended(j)
    BY AttendantsRest
  <1>2. WorkerServesItsJob'
    BY ServiceRests
  <1>3. stuck' \subseteq Jobs
    BY DEF TypeOK, LoopOK
  <1>4. ReapsUnattended'
    <2>1. \A j \in Jobs : Running(j)' /\ age'[j] > 0 => ~Attended(j)'
      BY <1>1 DEF JobsAreAttended, ReapsUnattended, RowsRest
    <2>2. \A j \in stuck' : Running(j)' /\ ~Attended(j)'
      BY <1>1, <1>3 DEF RowsRest
    <2> QED
      BY <2>1, <2>2 DEF ReapsUnattended
  <1>5. LoopAlone'
    BY DEF LoopAlone
  <1>6. NoOrphans'
    BY <1>1 DEF JobsAreAttended, NoOrphans, ServerUp, RowsRest, FaultsStay
  <1> QED
    BY <1>1, <1>2, <1>4, <1>5, <1>6 DEF JobsAreAttended, RowsRest

\* claim_jobs chooses queued jobs and idle workers, one each.
LEMMA ClaimReadChooses ==
  ASSUME TypeOK, KeysAreOwned, ClaimRead
  PROVE  PlanIsFree'
  <1> DEFINE eligible == FirstOfKey({j \in Jobs : status[j] = "queued" /\ kind[j] = "genut"})
             picked   == {j \in eligible :
                            Cardinality({i \in eligible : i < j}) < Cardinality(IdleWorkers)}
  <1>1. PICK f \in [picked -> IdleWorkers] :
          /\ \A i, j \in picked : f[i] = f[j] => i = j
          /\ plan' = {[job |-> j, worker |-> f[j], product |-> product[j]] : j \in picked}
    BY DEF ClaimRead
  <1>2. \A j \in picked : status[j] = "queued"
    BY DEF FirstOfKey
  <1> HIDE DEF picked
  <1>3. \A r \in plan' : /\ r.job \in picked /\ r.worker = f[r.job]
                         /\ r = [job |-> r.job, worker |-> f[r.job], product |-> product[r.job]]
    BY <1>1
  <1>4. \A w \in IdleWorkers : workerStatus[w] = "idle"
    BY DEF IdleWorkers
  <1>5. UNCHANGED <<status, workerStatus>> /\ picks' = {}
    BY NoPicks DEF ClaimRead, jobsTable, workersTable
  <1> QED
    BY <1>1, <1>2, <1>3, <1>4, <1>5 DEF PlanIsFree

\* The writes of claim_jobs: each job chosen runs, with its worker, for a task of its own.
LEMMA ClaimWriteStarts ==
  ASSUME TypeOK, KeysAreOwned, JobsAreAttended, ClaimWrite
  PROVE  /\ \A j \in Jobs : Running(j)' <=> Running(j) \/ \E r \in plan : r.job = j
         /\ \A j \in Jobs : (\A r \in plan : r.job # j) =>
              genut'[j] = genut[j] /\ age'[j] = age[j] /\ status'[j] = status[j]
         /\ \A r \in plan : age'[r.job] = 0 /\ genut'[r.job] = r.worker
         /\ \A r \in plan : workerStatus'[r.worker] = "busy" /\ current'[r.worker] = r.job
         /\ \A w \in Workers : (\A r \in plan : r.worker # w) =>
              workerStatus'[w] = workerStatus[w] /\ current'[w] = current[w]
         /\ toRun' = {[job |-> r.job, role |-> "job"] : r \in plan}
         /\ toRun = {} /\ plan' = {} /\ loop' \in {"auto", "dispatch"}
         /\ toRun' # {} => loop' = "dispatch"
         /\ UNCHANGED <<kind, product, thread, stuck, reaping, faults>>
  <1>1. Refused = {} /\ Kept = plan
    BY NothingRefused
  <1>2. /\ status' = [j \in Jobs |-> IF \E r \in plan : r.job = j THEN "running" ELSE status[j]]
        /\ age' = [j \in Jobs |-> IF \E r \in plan : r.job = j THEN 0 ELSE age[j]]
        /\ genut' = [j \in Jobs |-> IF \E r \in plan : r.job = j
                                    THEN (CHOOSE r \in plan : r.job = j).worker ELSE genut[j]]
        /\ workerStatus' = [w \in Workers |->
             IF \E r \in plan : r.worker = w THEN "busy" ELSE workerStatus[w]]
        /\ current' = [w \in Workers |->
             IF \E r \in plan : r.worker = w
             THEN (CHOOSE r \in plan : r.worker = w).job ELSE current[w]]
        /\ toRun' = {[job |-> r.job, role |-> "job"] : r \in plan}
        /\ loop' = IF plan = {} THEN "auto" ELSE "dispatch"
        /\ loop = "assign" /\ plan' = {}
        /\ UNCHANGED <<kind, product, thread, stuck, reaping, faults>>
    BY <1>1 DEF ClaimWrite, budgets
  <1>3. \A r \in plan : r.job \in Jobs /\ r.worker \in Workers
    BY DEF TypeOK, LoopOK, Assignment
  <1>4. \A r, s \in plan : r.job = s.job \/ r.worker = s.worker => r = s
    BY DEF KeysAreOwned, PlanHolds, JobsAreAttended, PlanIsFree
  <1>5. \A r \in plan : (CHOOSE s \in plan : s.job = r.job) = r
    BY <1>4
  <1>6. \A r \in plan : (CHOOSE s \in plan : s.worker = r.worker) = r
    BY <1>4
  <1>7. \A j \in Jobs : Running(j)' <=> Running(j) \/ \E r \in plan : r.job = j
    BY <1>2 DEF Running
  <1>8. \A r \in plan : age'[r.job] = 0 /\ genut'[r.job] = r.worker
    BY <1>2, <1>3, <1>5
  <1>9. \A r \in plan : workerStatus'[r.worker] = "busy" /\ current'[r.worker] = r.job
    BY <1>2, <1>3, <1>6
  <1>10. toRun = {}
    BY <1>2 DEF JobsAreAttended, LoopAlone
  <1>11. toRun' # {} => loop' = "dispatch"
    BY <1>2
  <1> QED
    BY <1>2, <1>7, <1>8, <1>9, <1>10, <1>11

\* They keep the jobs attended.
LEMMA ClaimWriteAttends ==
  ASSUME TypeOK, KeysAreOwned, JobsAreAttended, ClaimWrite
  PROVE  JobsAreAttended' /\ ResultsStay
  <1>1. /\ \A r \in plan : /\ r.job \in Jobs /\ r.worker \in Workers
                           /\ status[r.job] = "queued" /\ ~Running(r.job)
                           /\ workerStatus[r.worker] = "idle" /\ ~IsPrep(r.job)
        /\ \A r, s \in plan : r.job = s.job \/ r.worker = s.worker => r = s
    BY DEF TypeOK, LoopOK, Assignment, KeysAreOwned, PlanHolds, JobsAreAttended, PlanIsFree,
           Row, RowStatus, Running
  <1>2. /\ \A t \in Threads : Busy(t) => thread[t].job \in Jobs /\ Running(thread[t].job)
        /\ \A t \in Threads : Busy(t)' <=> Busy(t)
        /\ \A k \in toRun' : \E r \in plan : k.job = r.job /\ k.role = "job"
                                             /\ k = [job |-> r.job, role |-> "job"]
        /\ \A r \in plan : \E k \in toRun' : k.job = r.job
    <2>1. \A t \in Threads : Busy(t) => thread[t].job \in Jobs /\ Running(thread[t].job)
      BY DEF TypeOK, ThreadsOK, Busy, JobsAreAttended, AttendedRun
    <2>2. \A t \in Threads : Busy(t)' <=> Busy(t)
      BY ClaimWriteStarts DEF Busy
    <2>3. toRun' = {[job |-> r.job, role |-> "job"] : r \in plan}
      BY ClaimWriteStarts
    <2>4. ASSUME NEW r \in plan
          PROVE  \E k \in toRun' : k.job = r.job
      <3>1. [job |-> r.job, role |-> "job"] \in toRun'
        BY <2>3
      <3> QED
        BY <3>1
    <2>5. ASSUME NEW k \in toRun'
          PROVE  \E r \in plan : /\ k.job = r.job /\ k.role = "job"
                                 /\ k = [job |-> r.job, role |-> "job"]
      BY <2>3
    <2> QED
      BY <2>1, <2>2, <2>4, <2>5
  <1>3. OneAttendant'
    BY <1>1, <1>2, ClaimWriteStarts DEF JobsAreAttended, OneAttendant
  <1>4. AttendedRun'
    BY <1>1, <1>2, ClaimWriteStarts DEF JobsAreAttended, AttendedRun, IsPrep
  <1>5. SessionsAgree'
    <2>1. \A t \in Threads : thread[t].pc \in {"run", "unregister", "finish"} => Busy(t)
      BY DEF Busy
    <2>2. \A t \in Threads : Busy(t) => /\ genut'[thread[t].job] = genut[thread[t].job]
                                        /\ product'[thread[t].job] = product[thread[t].job]
      BY <1>1, <1>2, ClaimWriteStarts
    <2> QED
      BY <2>1, <2>2, ClaimWriteStarts DEF JobsAreAttended, SessionsAgree
  <1>6. \A j \in Jobs : Attended(j)' <=> Attended(j) \/ \E r \in plan : r.job = j
    BY <1>2, ClaimWriteStarts DEF Attended
  <1>7. ReapsUnattended'
    <2>1. \A j \in Jobs : Running(j)' /\ age'[j] > 0 => ~Attended(j)'
      BY <1>1, <1>6, ClaimWriteStarts DEF JobsAreAttended, ReapsUnattended
    <2>2. \A j \in stuck : Running(j)' /\ ~Attended(j)'
      BY <1>1, <1>6, ClaimWriteStarts DEF JobsAreAttended, ReapsUnattended, TypeOK, LoopOK
    <2> QED
      BY <2>1, <2>2, ClaimWriteStarts DEF ReapsUnattended
  <1>8. LoopAlone' /\ PlanIsFree'
    BY ClaimWriteStarts, NoPicks DEF LoopAlone, PlanIsFree, ClaimWrite
  <1>9. WorkerServesItsJob'
    <2> SUFFICES ASSUME NEW j \in Jobs, Running(j)', ~IsPrep(j)'
                 PROVE  /\ genut'[j] # None
                        /\ workerStatus'[genut'[j]] = "busy" /\ current'[genut'[j]] = j
      BY DEF WorkerServesItsJob
    <2>1. CASE \E r \in plan : r.job = j
      BY <1>1, <2>1, ClaimWriteStarts, ConstantsAssumption
    <2>2. CASE \A r \in plan : r.job # j
      <3>1. Running(j) /\ ~IsPrep(j) /\ genut'[j] = genut[j]
        BY <2>2, ClaimWriteStarts DEF IsPrep
      <3>2. /\ genut[j] \in Workers /\ genut[j] # None
            /\ workerStatus[genut[j]] = "busy" /\ current[genut[j]] = j
        BY <3>1 DEF JobsAreAttended, WorkerServesItsJob, TypeOK, JobsTableOK
      <3>3. \A r \in plan : r.worker # genut[j]
        BY <1>1, <3>2
      <3> QED
        BY <3>1, <3>2, <3>3, ClaimWriteStarts
    <2> QED
      BY <2>1, <2>2
  <1>10. NoOrphans'
    BY <1>6, ClaimWriteStarts DEF JobsAreAttended, NoOrphans, ServerUp, ClaimWrite
  <1>11. ResultsStay
    BY <1>1, ClaimWriteStarts DEF ResultsStay, Terminal
  <1> QED
    BY <1>3, <1>4, <1>5, <1>7, <1>8, <1>9, <1>10, <1>11 DEF JobsAreAttended

\* The end of a tick goes on to a phase in which nothing is handed out.
LEMMA EndTickGoesOn ==
  ASSUME EndTick
  PROVE  loop' \in {"claim", "sweep"}
  BY DEF EndTick

\* claim_prep_jobs: each job chosen runs, for a task of its own.
LEMMA ClaimPrepAttends ==
  ASSUME TypeOK, KeysAreOwned, JobsAreAttended, ClaimPrepWrite
  PROVE  JobsAreAttended' /\ ResultsStay
  <1>1. /\ status' = [j \in Jobs |-> IF j \in picks THEN "running" ELSE status[j]]
        /\ age'    = [j \in Jobs |-> IF j \in picks THEN 0 ELSE age[j]]
        /\ toRun'  = {[job |-> j, role |-> "prep"] : j \in picks}
        /\ loop = "assignPrep" /\ loop' = "dispatchPrep" /\ picks' = {}
        /\ UNCHANGED <<kind, product, genut, workerStatus, current, thread, plan, stuck,
                       reaping, faults>>
    BY DEF ClaimPrepWrite, workersTable, budgets
  <1>2. \A j \in picks : j \in Jobs /\ status[j] = "queued" /\ ~Running(j) /\ IsPrep(j)
    BY DEF ClaimPrepWrite, Row, Running, JobsAreAttended, PlanIsFree, KeysAreOwned, PicksHold,
           TypeOK, LoopOK
  <1>3. toRun = {} /\ plan' = {}
    BY <1>1 DEF JobsAreAttended, LoopAlone, KeysAreOwned, PlanHolds
  <1>4. \A j \in Jobs : Running(j)' <=> Running(j) \/ j \in picks
    BY <1>1 DEF Running
  <1>5. /\ \A t \in Threads : Busy(t) => thread[t].job \in Jobs /\ Running(thread[t].job)
        /\ \A t \in Threads : Busy(t)' <=> Busy(t)
        /\ \A k \in toRun' : k.job \in picks /\ k = [job |-> k.job, role |-> "prep"]
        /\ \A j \in picks : \E k \in toRun' : k.job = j
    <2>1. \A t \in Threads : Busy(t) => thread[t].job \in Jobs /\ Running(thread[t].job)
      BY DEF TypeOK, ThreadsOK, Busy, JobsAreAttended, AttendedRun
    <2>2. \A t \in Threads : Busy(t)' <=> Busy(t)
      BY <1>1 DEF Busy
    <2>3. ASSUME NEW j \in picks
          PROVE  \E k \in toRun' : k.job = j
      <3>1. [job |-> j, role |-> "prep"] \in toRun'
        BY <1>1
      <3> QED
        BY <3>1
    <2>4. \A k \in toRun' : k.job \in picks /\ k = [job |-> k.job, role |-> "prep"]
      BY <1>1
    <2> QED
      BY <2>1, <2>2, <2>3, <2>4
  <1>6. OneAttendant'
    BY <1>1, <1>2, <1>5 DEF JobsAreAttended, OneAttendant
  <1>7. AttendedRun'
    BY <1>1, <1>2, <1>4, <1>5 DEF JobsAreAttended, AttendedRun, IsPrep
  <1>8. SessionsAgree'
    BY <1>1 DEF JobsAreAttended, SessionsAgree
  <1>9. \A j \in Jobs : Attended(j)' <=> Attended(j) \/ j \in picks
    BY <1>1, <1>3, <1>5 DEF Attended
  <1>10. ReapsUnattended'
    <2>1. \A j \in Jobs : Running(j)' /\ age'[j] > 0 => ~Attended(j)'
      BY <1>1, <1>4, <1>9 DEF JobsAreAttended, ReapsUnattended
    <2>2. \A j \in stuck : Running(j)' /\ ~Attended(j)'
      BY <1>2, <1>4, <1>9 DEF JobsAreAttended, ReapsUnattended, TypeOK, LoopOK
    <2> QED
      BY <1>1, <1>3, <2>1, <2>2 DEF ReapsUnattended
  <1>11. LoopAlone' /\ PlanIsFree'
    BY <1>1, <1>3 DEF LoopAlone, PlanIsFree
  <1>12. WorkerServesItsJob'
    BY <1>1, <1>2, <1>4 DEF JobsAreAttended, WorkerServesItsJob, IsPrep
  <1>13. NoOrphans'
    BY <1>1, <1>4, <1>9 DEF JobsAreAttended, NoOrphans, ServerUp
  <1>14. ResultsStay
    BY <1>1, <1>2 DEF ResultsStay, Terminal
  <1> QED
    BY <1>6, <1>7, <1>8, <1>10, <1>11, <1>12, <1>13, <1>14 DEF JobsAreAttended

\* A task that gets a thread stays one.
LEMMA DispatchAttends ==
  ASSUME TypeOK, JobsAreAttended, Dispatch
  PROVE  JobsAreAttended' /\ ResultsStay
  <1>1. PICK k \in toRun, t \in Threads :
          /\ thread[t].pc = "idle"
          /\ SetThread(t, [IdleThread EXCEPT !.pc = "start", !.job = k.job, !.role = k.role])
          /\ toRun' = toRun \ {k}
    BY DEF Dispatch
  <1> DEFINE th == [IdleThread EXCEPT !.pc = "start", !.job = k.job, !.role = k.role]
  <1>2. th.pc = "start" /\ th.job = k.job /\ th.role = k.role
    BY DEF IdleThread
  <1>3. \A u \in Threads : thread'[u] = IF u = t THEN th ELSE thread[u]
    BY <1>1 DEF SetThread, TypeOK, ThreadsOK
  <1> HIDE DEF th
  <1>4. /\ loop \in {"dispatch", "dispatchPrep"}
        /\ toRun' # {} => loop' = loop
        /\ loop' \in {"dispatch", "dispatchPrep", "auto", "claim", "sweep"}
        /\ UNCHANGED <<status, kind, product, genut, age, workerStatus, current, plan, picks,
                       stuck, reaping, faults>>
    BY EndTickGoesOn DEF Dispatch, jobsTable, workersTable, budgets
  <1>5. \A u \in Threads : Busy(u)' <=> Busy(u) \/ u = t
    BY <1>2, <1>3 DEF Busy
  <1>6. OneAttendant'
    BY <1>1, <1>2, <1>3, <1>5 DEF JobsAreAttended, OneAttendant, Busy
  <1>7. AttendedRun'
    BY <1>1, <1>2, <1>3, <1>4, <1>5 DEF JobsAreAttended, AttendedRun, Running, IsPrep
  <1>8. SessionsAgree'
    BY <1>2, <1>3, <1>4 DEF JobsAreAttended, SessionsAgree
  <1>9. \A j \in Jobs : Attended(j)' <=> Attended(j)
    <2>1. \A j \in Jobs : Attended(j) <=> (\E u \in Threads : Busy(u) /\ thread[u].job = j)
                                           \/ \E l \in toRun : l.job = j
      BY DEF Attended, Busy
    <2>2. \A j \in Jobs : Attended(j)' <=> (\E u \in Threads : Busy(u)' /\ thread'[u].job = j)
                                            \/ \E l \in toRun' : l.job = j
      BY DEF Attended, Busy
    <2> QED
      BY <1>1, <1>2, <1>3, <1>5, <2>1, <2>2 DEF Busy
  <1>10. ReapsUnattended'
    BY <1>4, <1>9 DEF JobsAreAttended, ReapsUnattended, Running, TypeOK, LoopOK
  <1>11. LoopAlone'
    BY <1>4 DEF LoopAlone
  <1>12. PlanIsFree' /\ WorkerServesItsJob' /\ ResultsStay
    BY <1>4 DEF JobsAreAttended, PlanIsFree, WorkerServesItsJob, ResultsStay, Running, IsPrep
  <1>13. NoOrphans'
    BY <1>4, <1>9 DEF JobsAreAttended, NoOrphans, ServerUp, Running
  <1> QED
    BY <1>6, <1>7, <1>8, <1>10, <1>11, <1>12, <1>13 DEF JobsAreAttended

\* The watchdog ends a job that no thread is left for.
LEMMA ReapFinishAttends ==
  ASSUME TypeOK, TypeOK', KeysAreOwned, JobsAreAttended, ReapFinish
  PROVE  JobsAreAttended' /\ ResultsStay
  <1> DEFINE j == reaping
  <1>1. j \in Jobs /\ j \in stuck /\ Running(j) /\ ~Attended(j)
    BY DEF ReapFinish, JobsAreAttended, ReapsUnattended, TypeOK, LoopOK
  <1>2. PICK v \in {Fresh(j), [Fresh(j) EXCEPT !.status = "running"]} : FinishJob(j, v, "failed")
    BY DEF ReapFinish
  <1>3. /\ stuck' = stuck \ {j} /\ loop' \in {"claim", "reapKill"} /\ loop = "reapFinish"
        /\ UNCHANGED <<thread, plan, picks, toRun, faults>>
    BY DEF ReapFinish, budgets
  <1> HIDE DEF j
  <1>4. JobEnds(j)
    <2>1. v.status = "running" /\ v.genut = genut[j]
          /\ v.current = IF genut[j] = None THEN None ELSE current[genut[j]]
      BY <1>1, <1>2 DEF Fresh, Running
    <2>2. j # None
      BY <1>1, ConstantsAssumption
    <2> QED
      BY <1>1, <1>2, <2>1, <2>2, FinishJobEnds DEF Terminal
  <1>5. /\ \A i \in Jobs : Running(i)' <=> Running(i) /\ i # j
        /\ PlanIsFree' /\ WorkerServesItsJob' /\ ResultsStay
    BY <1>1, <1>3, <1>4, EndLeaves
  <1>6. /\ \A i \in Jobs : i # j => age'[i] = age[i]
        /\ UNCHANGED <<kind, product, genut>>
    BY <1>4 DEF JobEnds
  <1>7. /\ \A u \in Threads : Busy(u)' <=> Busy(u)
        /\ \A u \in Threads : Busy(u) => thread[u].job \in Jobs /\ thread[u].job # j
        /\ \A k \in toRun : k.job \in Jobs /\ k.job # j
        /\ \A i \in Jobs : Attended(i)' <=> Attended(i)
    BY <1>1, <1>3 DEF Busy, Attended, TypeOK, ThreadsOK, LoopOK, Task
  <1>8. OneAttendant'
    BY <1>3, <1>7 DEF JobsAreAttended, OneAttendant
  <1>9. AttendedRun'
    BY <1>3, <1>5, <1>6, <1>7 DEF JobsAreAttended, AttendedRun, IsPrep
  <1>10. SessionsAgree'
    BY <1>3, <1>6 DEF JobsAreAttended, SessionsAgree
  <1>11. ReapsUnattended' /\ LoopAlone'
    BY <1>3, <1>5, <1>6, <1>7 DEF JobsAreAttended, ReapsUnattended, LoopAlone, TypeOK, LoopOK
  <1>12. NoOrphans'
    BY <1>3, <1>5, <1>7 DEF JobsAreAttended, NoOrphans, ServerUp
  <1> QED
    BY <1>5, <1>8, <1>9, <1>10, <1>11, <1>12 DEF JobsAreAttended

\* The steps of the loop keep the jobs attended.
LEMMA LoopKeeps ==
  ASSUME TypeOK, TypeOK', KeysAreOwned, JobsAreAttended,
         LoopStep \/ ReapLost \/ LoopError \/ (\E p \in Products : EnqueueDueCycle(p))
  PROVE  JobsAreAttended' /\ ResultsStay
  <1>0. /\ loop \notin {"dispatch", "dispatchPrep"} => toRun = {}
        /\ \A j \in stuck : Running(j) /\ ~Attended(j)
        /\ loop = "reapFinish" => reaping \in stuck
        /\ plan' = {} /\ picks' = {} => PlanIsFree'
    BY DEF JobsAreAttended, LoopAlone, ReapsUnattended, PlanIsFree
  <1>1. CASE ClaimRead
    <2>1. /\ loop = "claim" /\ loop' \in {"auto", "load"}
          /\ UNCHANGED <<jobsTable, workerStatus, current, thread, toRun, stuck, faults>>
      BY <1>1 DEF ClaimRead, workersTable, budgets
    <2> QED
      BY <1>0, <1>1, <2>1, ClaimReadChooses, UnchangedRests, LoopRests
  <1>2. CASE ClaimLoad
    <2>1. \A r \in plan : Row(r.job) => [r EXCEPT !.product = product[r.job]] = r
      BY DEF KeysAreOwned, PlanHolds, TypeOK, LoopOK, Assignment
    <2>2. /\ loop = "load" /\ loop' \in {"auto", "assign"} /\ plan' \subseteq plan
          /\ UNCHANGED <<jobsTable, workerStatus, current, thread, toRun, picks, stuck, faults>>
      BY <1>2, <2>1 DEF ClaimLoad, workersTable, budgets
    <2>3. PlanIsFree'
      BY <2>2, UnchangedRests, ChoiceRests
    <2> QED
      BY <1>0, <2>2, <2>3, UnchangedRests, LoopRests
  <1>3. CASE ClaimWrite
    BY <1>3, ClaimWriteAttends
  <1>4. CASE ClaimAborts
    BY <1>4, NothingRefused DEF ClaimAborts
  <1>5. CASE Dispatch
    BY <1>5, DispatchAttends
  <1>6. CASE ClaimPrepWrite
    BY <1>6, ClaimPrepAttends
  <1>14. CASE ClaimPrepRead
    <2>1. /\ loop = "auto" /\ loop' \in {"claim", "sweep", "assignPrep"}
          /\ picks' = FirstOfKey({j \in Jobs : status[j] = "queued" /\ IsPrep(j)})
          /\ UNCHANGED <<jobsTable, workerStatus, current, thread, toRun, plan, stuck, faults>>
      BY <1>14, EndTickGoesOn DEF ClaimPrepRead, workersTable, budgets
    <2>2. \A j \in picks' : status'[j] = "queued"
      BY <2>1 DEF FirstOfKey, jobsTable
    <2>3. PlanIsFree'
      BY <2>1, <2>2 DEF JobsAreAttended, PlanIsFree, jobsTable
    <2> QED
      BY <1>0, <2>1, <2>3, UnchangedRests, LoopRests
  <1>15. CASE ClaimPrepLost
    <2>1. \A j \in picks : Row(j)
      BY DEF JobsAreAttended, PlanIsFree, Row, RowStatus
    <2> QED
      BY <1>15, <2>1 DEF ClaimPrepLost
  <1>7. CASE ReleaseStaleLocks
    <2>1. /\ loop = "sweep" /\ loop' = "reap"
          /\ UNCHANGED <<jobsTable, thread, toRun, plan, picks, stuck, faults>>
      BY <1>7 DEF ReleaseStaleLocks, budgets
    <2>2. WorkersRest
      BY <1>7, ReleaseStaleRests DEF ReleaseStaleLocks
    <2>3. PlanIsFree'
      BY <2>1, <2>2, UnchangedRests, ChoiceRests
    <2> QED
      BY <1>0, <2>1, <2>2, <2>3, UnchangedRests, LoopRests
  <1>8. CASE ReapScan
    <2>1. /\ loop = "reap" /\ loop' \in {"claim", "reapKill"}
          /\ UNCHANGED <<jobsTable, workerStatus, current, thread, toRun, plan, picks, faults>>
          /\ stuck' = {j \in Jobs : Running(j) /\ (age[j] = 2 \/ (age[j] = 1 /\ j \notin procs))}
      BY <1>8 DEF ReapScan, workersTable, budgets
    <2>2. \A j \in stuck' : Running(j) /\ ~Attended(j)
      BY <2>1 DEF JobsAreAttended, ReapsUnattended
    <2>3. PlanIsFree'
      BY <2>1, UnchangedRests, ChoiceRests
    <2> QED
      BY <1>0, <2>1, <2>2, <2>3, UnchangedRests, LoopRests
  <1>9. CASE ReapKill
    <2>1. /\ loop = "reapKill" /\ loop' = "reapFinish" /\ reaping' \in stuck'
          /\ UNCHANGED <<jobsTable, workerStatus, current, thread, toRun, plan, picks, stuck,
                         faults>>
      BY <1>9 DEF ReapKill, workersTable, budgets
    <2>2. PlanIsFree'
      BY <2>1, UnchangedRests, ChoiceRests
    <2> QED
      BY <1>0, <2>1, <2>2, UnchangedRests, LoopRests
  <1>10. CASE ReapFinish
    BY <1>10, ReapFinishAttends
  <1>11. CASE ReapLost
    BY <1>0, <1>11 DEF ReapLost, Row, RowStatus, Running
  <1>12. CASE LoopError
    <2>1. /\ loop \in {"claim", "load", "assign", "auto", "assignPrep", "sweep", "reap",
                       "reapFinish"}
          /\ loop' = "claim" /\ plan' = {} /\ picks' = {} /\ stuck' = {}
          /\ UNCHANGED <<jobsTable, workerStatus, current, thread, toRun>>
      BY <1>12 DEF LoopError, workersTable
    <2>2. FaultsStay
      BY <1>12, SpendStays DEF LoopError, FaultsStay
    <2> QED
      BY <1>0, <2>1, <2>2, UnchangedRests, LoopRests
  <1>13. CASE \E p \in Products : EnqueueDueCycle(p)
    BY <1>13, CycleRests, UnchangedRests, RestKeeps
       DEF EnqueueDueCycle, workersTable, loopVars, budgets
  <1> QED
    BY <1>1, <1>2, <1>3, <1>4, <1>5, <1>6, <1>7, <1>8, <1>9, <1>10, <1>11, <1>12, <1>13,
       <1>14, <1>15
       DEF LoopStep

-----------------------------------------------------------------------------
(* Time, crashes, restart *)

\* Time passes the limit for jobs without a thread only, a crash takes every thread, and a
\* restart interrupts every job.
LEMMA EnvironmentKeeps ==
  ASSUME ~SlowThreads, TypeOK, JobsAreAttended,
         (\E j \in Jobs : Age(j)) \/ Crash \/ Boot \/ BootFails
  PROVE  JobsAreAttended' /\ ResultsStay
  <1>1. ASSUME NEW j \in Jobs, Age(j)
        PROVE  JobsAreAttended' /\ ResultsStay
    <2>1. /\ ~Attended(j) /\ age' = [age EXCEPT ![j] = @ + 1]
          /\ UNCHANGED <<status, kind, product, genut, workerStatus, current, thread, toRun,
                         plan, picks, stuck, reaping, loop, faults>>
      BY <1>1 DEF Age, workersTable, loopVars, budgets
    <2>2. /\ \A i \in Jobs : i # j => age'[i] = age[i]
          /\ \A i \in Jobs : Attended(i)' <=> Attended(i)
      BY <2>1 DEF TypeOK, JobsTableOK, Attended
    <2>3. ReapsUnattended'
      BY <2>1, <2>2 DEF JobsAreAttended, ReapsUnattended, Running, TypeOK, LoopOK
    <2>4. OneAttendant' /\ AttendedRun' /\ SessionsAgree' /\ LoopAlone'
      BY <2>1 DEF JobsAreAttended, OneAttendant, AttendedRun, SessionsAgree, LoopAlone,
                  Busy, Running, IsPrep
    <2>5. PlanIsFree' /\ WorkerServesItsJob' /\ ResultsStay
      BY <2>1 DEF JobsAreAttended, PlanIsFree, WorkerServesItsJob, ResultsStay, Running, IsPrep
    <2>6. NoOrphans'
      BY <2>1, <2>2 DEF JobsAreAttended, NoOrphans, ServerUp, Running
    <2> QED
      BY <2>3, <2>4, <2>5, <2>6 DEF JobsAreAttended
  <1>2. CASE Crash
    <2>1. /\ loop' = "boot" /\ plan' = {} /\ picks' = {} /\ toRun' = {} /\ stuck' = {}
          /\ thread' = [t \in Threads |-> IdleThread] /\ IdleThread.pc = "idle"
          /\ UNCHANGED <<status, kind, product, genut, age, workerStatus, current>>
      BY <1>2 DEF Crash, IdleThread, jobsTable, workersTable
    <2>2. \A t \in Threads : thread'[t].pc = "idle"
      BY <2>1
    <2>3. \A j \in Jobs : ~Attended(j)'
      BY <2>1, <2>2 DEF Attended
    <2>4. OneAttendant' /\ AttendedRun' /\ SessionsAgree' /\ LoopAlone'
      BY <2>1, <2>2 DEF OneAttendant, AttendedRun, SessionsAgree, LoopAlone, Busy
    <2>5. PlanIsFree' /\ ReapsUnattended' /\ NoOrphans' /\ ResultsStay
      BY <2>1, <2>3 DEF PlanIsFree, ReapsUnattended, NoOrphans, ServerUp, ResultsStay
    <2>6. WorkerServesItsJob'
      BY <2>1 DEF JobsAreAttended, WorkerServesItsJob, Running, IsPrep
    <2> QED
      BY <2>4, <2>5, <2>6 DEF JobsAreAttended
  <1>3. CASE Boot \/ BootFails
    <2>1. /\ loop = "boot" /\ loop' = "claim"
          /\ UNCHANGED <<kind, product, genut, thread, plan, picks, toRun, stuck, reaping>>
      BY <1>3 DEF Boot, BootFails
    <2>2. /\ plan' = {} /\ picks' = {} /\ toRun' = {} /\ stuck' = {}
          /\ \A t \in Threads : thread'[t].pc = "idle"
      BY <2>1 DEF JobsAreAttended, LoopAlone, Busy
    <2>3. \A j \in Jobs : ~Attended(j)'
      BY <2>2 DEF Attended
    <2>4. OneAttendant' /\ AttendedRun' /\ SessionsAgree' /\ LoopAlone'
      BY <2>1, <2>2 DEF OneAttendant, AttendedRun, SessionsAgree, LoopAlone, Busy
    <2>5. PlanIsFree' /\ ReapsUnattended'
      BY <2>1, <2>2, <2>3 DEF PlanIsFree, ReapsUnattended
    <2>6. \/ status' = Interrupted
          \/ BootFails /\ UNCHANGED <<status, workerStatus, current>>
      BY <1>3 DEF Boot, BootFails, workersTable
    <2>7. status' = Interrupted => \A j \in Jobs : ~Running(j)'
      BY DEF Interrupted, Running
    <2>8. WorkerServesItsJob'
      BY <2>1, <2>6, <2>7 DEF JobsAreAttended, WorkerServesItsJob, Running, IsPrep
    <2>9. NoOrphans'
      BY <2>6, <2>7, SpendStays DEF NoOrphans, BootFails
    <2>10. ResultsStay
      BY <2>6 DEF ResultsStay, Interrupted, Running, Terminal
    <2> QED
      BY <2>4, <2>5, <2>8, <2>9, <2>10 DEF JobsAreAttended
  <1> QED
    BY <1>1, <1>2, <1>3

-----------------------------------------------------------------------------
(* The theorems *)

\* At first nothing runs.
LEMMA InitAttends == Init => JobsAreAttended
  <1> SUFFICES ASSUME Init PROVE JobsAreAttended
    OBVIOUS
  <1>1. \A t \in Threads : thread[t].pc = "idle"
    BY DEF Init, IdleThread
  <1> QED
    BY <1>1 DEF Init, JobsAreAttended, OneAttendant, AttendedRun, SessionsAgree, PlanIsFree,
                ReapsUnattended, LoopAlone, WorkerServesItsJob, NoOrphans, ServerUp, Busy, Running

\* The invariant is inductive, and no step changes a result.
LEMMA NextAttends ==
  ASSUME ~SlowThreads, TypeOK, TypeOK', KeysAreOwned, JobsAreAttended,
         [Next /\ ClaimUndisturbed]_vars
  PROVE  JobsAreAttended' /\ ResultsStay
  <1>1. CASE UNCHANGED vars
    BY <1>1, RestKeeps, UnchangedRests DEF vars, workersTable, loopVars, budgets
  <1>2. CASE Next /\ ClaimUndisturbed
    BY <1>2, ThreadKeeps, LoopKeeps, ClientKeeps, EnvironmentKeeps DEF Next
  <1> QED
    BY <1>1, <1>2

\* Undisturbed claims are among all behaviours.
LEMMA UndisturbedIsSpec == UndisturbedSpec => Spec
  <1>1. [Next /\ ClaimUndisturbed]_vars => [Next]_vars
    OBVIOUS
  <1> QED
    BY <1>1, PTL DEF UndisturbedSpec, Spec

\* Every running job is worked on, or about to be, by one thread in the right role, whose
\* session agrees with the rows, and its worker is busy with it; the watchdog meets none
\* of them. Job ids are not used twice, no thread outlives the runtime limit, and no
\* job is canceled between the read and the write of the claim that chose it.
THEOREM JobsAttended ==
  ASSUME ~ReuseIds, ~SlowThreads
  PROVE  UndisturbedSpec => []JobsAreAttended
  <1>1. Init => JobsAreAttended
    BY InitAttends
  <1>2. TypeOK /\ TypeOK' /\ KeysAreOwned /\ JobsAreAttended
          /\ [Next /\ ClaimUndisturbed]_vars => JobsAreAttended'
    BY NextAttends
  <1> QED
    BY <1>1, <1>2, UndisturbedIsSpec, TypeCorrect, KeysOwned, PTL DEF UndisturbedSpec

\* The worker of a running GENUT job is busy with that job and hence with no other
\* (claim_jobs, and the ownership test of finish_job).
THEOREM WorkersServe ==
  ASSUME ~ReuseIds, ~SlowThreads
  PROVE  UndisturbedSpec => []WorkerServesItsJob
  <1>1. JobsAreAttended => WorkerServesItsJob
    BY DEF JobsAreAttended
  <1> QED
    BY <1>1, JobsAttended, PTL

\* Until a transaction fails, every running job has a thread or a place in the line for
\* one, across crashes and restarts (Scheduler.start, mark_interrupted_jobs).
THEOREM NoneOrphaned ==
  ASSUME ~ReuseIds, ~SlowThreads
  PROVE  UndisturbedSpec => []NoOrphans
  <1>1. JobsAreAttended => NoOrphans
    BY DEF JobsAreAttended
  <1> QED
    BY <1>1, JobsAttended, PTL

\* The runners of two jobs at work have jobs of different keys.
LEMMA AttendedRunnersApart ==
  ASSUME TypeOK, KeysAreOwned, JobsAreAttended
  PROVE  RunnersApart
  <1> SUFFICES ASSUME NEW t \in Threads, NEW u \in Threads,
                      t # u, thread[t].pc = "run", thread[u].pc = "run"
               PROVE  KeyOf[thread[t].seen.product] # KeyOf[thread[u].seen.product]
    BY DEF RunnersApart
  <1>1. Busy(t) /\ Busy(u)
    BY DEF Busy
  <1>2. /\ thread[t].job \in Jobs /\ Running(thread[t].job)
        /\ thread[u].job \in Jobs /\ Running(thread[u].job)
        /\ thread[t].job # thread[u].job
    BY <1>1, BusyFacts DEF JobsAreAttended, OneAttendant
  <1>3. Key(thread[t].job) # Key(thread[u].job)
    BY <1>2, OwnedKeysExclude DEF OneRunningPerKey
  <1> QED
    BY <1>3 DEF JobsAreAttended, SessionsAgree, Key

\* Two runners never work in checkouts of the same (project, name): the exclusion the
\* rows promise (OneRunningPerKey) holds of the threads that touch the files.
THEOREM RunnersKeptApart ==
  ASSUME ~ReuseIds, ~SlowThreads
  PROVE  UndisturbedSpec => []RunnersApart
  <1>1. TypeOK /\ KeysAreOwned /\ JobsAreAttended => RunnersApart
    BY AttendedRunnersApart
  <1> QED
    BY <1>1, JobsAttended, UndisturbedIsSpec, TypeCorrect, KeysOwned, PTL

\* A finished job keeps its result until it is deleted: no late thread, no watchdog, no
\* claim and no restart overwrites it (the terminal guard of finish_job, and the threads
\* of _finish_prep, which has none).
THEOREM ResultsKept ==
  ASSUME ~ReuseIds, ~SlowThreads
  PROVE  UndisturbedSpec => ResultsAreFinal
  <1>1. TypeOK /\ TypeOK' /\ KeysAreOwned /\ JobsAreAttended
          /\ [Next /\ ClaimUndisturbed]_vars => ResultsStay
    BY NextAttends
  <1> QED
    BY <1>1, JobsAttended, UndisturbedIsSpec, TypeCorrect, KeysOwned, PTL
       DEF UndisturbedSpec, ResultsAreFinal, ResultsStay

-----------------------------------------------------------------------------
(* Without cancel_all_jobs *)

\* Only cancel_all_jobs cancels a job that is queued.
QueueNotCanceled == \A j \in Jobs : status[j] = "queued" => status'[j] # "canceled"

\* The end of a job cancels no other.
LEMMA EndsCancelNoOther ==
  ASSUME TypeOK, NEW j \in Jobs, Running(j), NEW v, NEW result,
         FinishJob(j, v, result) \/ FinishPrep(j, result)
  PROVE  QueueNotCanceled
  BY DEF TypeOK, JobsTableOK, FinishJob, FinishPrep, jobsTable, QueueNotCanceled, Running

\* Nor does an insert or a deletion.
LEMMA RowsCancelNone ==
  ASSUME TypeOK, NEW i, NEW k, NEW p, NEW S,
         InsertJob(i, k, p) \/ InsertCycle(p) \/ DeleteRows(S) \/ UNCHANGED jobsTable
  PROVE  QueueNotCanceled
  <1>1. CASE InsertJob(i, k, p)
    BY <1>1 DEF TypeOK, JobsTableOK, InsertJob, QueueNotCanceled
  <1>2. CASE InsertCycle(p)
    BY <1>2 DEF TypeOK, JobsTableOK, InsertCycle, QueueNotCanceled
  <1>3. CASE DeleteRows(S)
    BY <1>3 DEF DeleteRows, QueueNotCanceled
  <1>4. CASE UNCHANGED jobsTable
    BY <1>4 DEF jobsTable, QueueNotCanceled
  <1> QED
    BY <1>1, <1>2, <1>3, <1>4

\* So where it is not called, claims are undisturbed.
LEMMA NextCancelsNone ==
  ASSUME TypeOK, KeysAreOwned, JobsAreAttended, "cancelAll" \notin Ops, Next
  PROVE  ClaimUndisturbed
  <1> SUFFICES QueueNotCanceled
    BY DEF QueueNotCanceled, ClaimUndisturbed, TypeOK, LoopOK, Assignment
  <1> USE RowsCancelNone
  <1>1. ASSUME NEW t \in Threads, ThreadStep(t) \/ ThreadFault(t)
        PROVE  QueueNotCanceled
    <2>1. thread[t].pc # "idle" => thread[t].job \in Jobs /\ Running(thread[t].job)
      BY BusyFacts DEF Busy
    <2>2. CASE StartJob(t)
      BY <2>1, <2>2, EndsCancelNoOther DEF StartJob
    <2>3. CASE Finish(t) \/ FinishFallback(t)
      BY <2>1, <2>3, EndsCancelNoOther DEF Finish, FinishFallback, EndWith
    <2>4. CASE AutoEnqueue(t)
      BY <2>4 DEF AutoEnqueue
    <2>5. CASE UNCHANGED jobsTable
      BY <2>5
    <2> QED
      BY <1>1, <2>2, <2>3, <2>4, <2>5
         DEF ThreadStep, ThreadFault, StartPrep, Register, RunReturns, Unregister,
             StartJobFails, FinishLost
  <1>2. CASE LoopStep
    <2>1. CASE ClaimWrite
      BY <2>1 DEF ClaimWrite, QueueNotCanceled
    <2>2. CASE ClaimPrepWrite
      BY <2>2 DEF ClaimPrepWrite, QueueNotCanceled
    <2>3. CASE ReapFinish
      <3>1. reaping \in Jobs /\ Running(reaping)
        BY <2>3 DEF ReapFinish, JobsAreAttended, ReapsUnattended, TypeOK, LoopOK
      <3> QED
        BY <2>3, <3>1, EndsCancelNoOther DEF ReapFinish
    <2>4. CASE UNCHANGED jobsTable
      BY <2>4
    <2> QED
      BY <1>2, <2>1, <2>2, <2>3, <2>4
         DEF LoopStep, ClaimRead, ClaimLoad, ClaimAborts, Dispatch, ClaimPrepRead,
             ClaimPrepLost, ReleaseStaleLocks, ReapScan, ReapKill
  <1>3. CASE ReapLost \/ LoopError \/ \E p \in Products : EnqueueDueCycle(p)
    BY <1>3 DEF ReapLost, LoopError, EnqueueDueCycle
  <1>4. CASE ClientStep
    <2>1. ASSUME NEW p \in Products, CancelAllJobs(p)
          PROVE  FALSE
      BY <2>1 DEF CancelAllJobs, Offered
    <2> QED
      BY <1>4, <2>1
         DEF ClientStep, SubmitRequest, CancelAllScan, DeleteFinishedJobs, RunAutoNow,
             RunAutoNowInsert, RerunJob, CancelJob, Kill, DeleteJob, SetEnabled
  <1>5. CASE (\E j \in Jobs : Age(j)) \/ Crash \/ Boot \/ BootFails
    BY <1>5 DEF Age, Crash, Boot, BootFails, Interrupted, Running, QueueNotCanceled, jobsTable
  <1> QED
    BY <1>1, <1>2, <1>3, <1>4, <1>5 DEF Next

\* A server on which nobody calls cancel_all_jobs claims undisturbed: of it, the theorems
\* above hold without a condition on its behaviour.
THEOREM UndisturbedWithoutCancelAll ==
  ASSUME ~ReuseIds, ~SlowThreads, "cancelAll" \notin Ops
  PROVE  Spec => UndisturbedSpec
  <1>1. Init => JobsAreAttended
    BY InitAttends
  <1>2. TypeOK /\ KeysAreOwned /\ JobsAreAttended /\ [Next]_vars
          => [Next /\ ClaimUndisturbed]_vars
    BY NextCancelsNone
  <1>3. TypeOK /\ TypeOK' /\ KeysAreOwned /\ JobsAreAttended /\ [Next]_vars
          => JobsAreAttended'
    BY <1>2, NextAttends
  <1> QED
    BY <1>1, <1>2, <1>3, TypeCorrect, KeysOwned, PTL DEF Spec, UndisturbedSpec

=============================================================================
