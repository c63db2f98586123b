-------------------------- MODULE JobSchedulerProofs --------------------------
(***************************************************************************)
(* JobScheduler for all values of its constants: its types; and, with      *)
(* ~ReuseIds, exclusion per (project, name), the scheduler as an           *)
(* implementation of ExclusiveKeys, the order jobs start in, what jobs     *)
(* leave behind, and the workers as an implementation of ExclusiveKeys.    *)
(***************************************************************************)
EXTENDS Cleanup, TLAPS

-----------------------------------------------------------------------------
(* The operators the actions share *)

\* What a step leaves alone keeps its type.
LEMMA UnchangedType ==
  ASSUME TypeOK
  PROVE  /\ UNCHANGED jobsTable    => JobsTableOK'
         /\ UNCHANGED lock         => LockTableOK'
         /\ UNCHANGED workersTable => WorkersTableOK'
         /\ UNCHANGED registry     => RegistryOK'
         /\ UNCHANGED thread       => ThreadsOK'
         /\ UNCHANGED loopVars     => LoopOK'
         /\ UNCHANGED calls        => CallsOK'
         /\ UNCHANGED budgets      => BudgetsOK'
  <1> USE DEF TypeOK
  <1>1. UNCHANGED jobsTable => JobsTableOK'
    BY DEF jobsTable, JobsTableOK, Row
  <1>2. UNCHANGED lock => LockTableOK'
    BY DEF LockTableOK
  <1>3. UNCHANGED workersTable => WorkersTableOK'
    BY DEF workersTable, WorkersTableOK
  <1>4. UNCHANGED registry => RegistryOK'
    BY DEF registry, RegistryOK
  <1>5. UNCHANGED thread => ThreadsOK'
    BY DEF ThreadsOK
  <1>6. UNCHANGED loopVars => LoopOK'
    BY DEF loopVars, LoopOK
  <1>7. UNCHANGED calls => CallsOK'
    BY DEF calls, CallsOK
  <1>8. UNCHANGED budgets => BudgetsOK'
    BY DEF budgets, BudgetsOK
  <1> QED
    BY <1>1, <1>2, <1>3, <1>4, <1>5, <1>6, <1>7, <1>8

\* The rows a session loads are well typed.
LEMMA FreshType ==
  ASSUME TypeOK, NEW j \in Jobs, Row(j)
  PROVE  Fresh(j) \in Seen /\ Fresh(j).product \in Products
  BY DEF TypeOK, JobsTableOK, WorkersTableOK, Fresh, Seen, Row, RowStatus

\* A thread moves to a well-typed record with the job and the product it needs.
LEMMA SetThreadType ==
  ASSUME TypeOK, NEW t \in Threads, NEW th \in Thread, SetThread(t, th),
         th.pc # "idle" => th.job \in Jobs,
         th.pc = "run" => th.seen.product \in Products
  PROVE  ThreadsOK'
  BY DEF TypeOK, ThreadsOK, SetThread

\* A thread that gives back its slot.
LEMMA ReleaseThreadType ==
  ASSUME TypeOK, NEW t \in Threads, Release(t)
  PROVE  ThreadsOK'
  <1>1. IdleThread \in Thread /\ IdleThread.pc = "idle"
    BY DEF IdleThread, Thread, Phases, NothingSeen, Seen
  <1> QED
    BY <1>1, SetThreadType DEF Release

\* A fault stays within its bound.
LEMMA SpendType ==
  ASSUME TypeOK, Spend, UNCHANGED crashes
  PROVE  BudgetsOK'
  BY ConstantsAssumption DEF TypeOK, BudgetsOK, Spend

\* Inserting a row keeps the jobs table well typed.
LEMMA InsertType ==
  ASSUME TypeOK, NEW i \in Jobs, NEW k \in Kinds, NEW p \in Products,
         InsertJob(i, k, p)
  PROVE  JobsTableOK'
  BY DEF TypeOK, JobsTableOK, InsertJob, Row, RowStatus

\* So does inserting the pair of a cycle.
LEMMA CycleType ==
  ASSUME TypeOK, NEW p \in Products, InsertCycle(p)
  PROVE  JobsTableOK'
  BY DEF TypeOK, JobsTableOK, InsertCycle, Row, RowStatus, Kinds, PrepKinds

\* And deleting rows.
LEMMA DeleteType ==
  ASSUME TypeOK, NEW S, DeleteRows(S)
  PROVE  JobsTableOK'
  BY DEF TypeOK, JobsTableOK, DeleteRows, Row, RowStatus, Terminal, Kinds

\* The three tables a finishing job writes stay well typed.
LEMMA FinishJobType ==
  ASSUME TypeOK, NEW j \in Jobs, NEW v, NEW result \in Terminal, FinishJob(j, v, result)
  PROVE  JobsTableOK' /\ LockTableOK' /\ WorkersTableOK'
  <1>1. CASE v.status \in Terminal \/ ~Row(j)
    BY <1>1, UnchangedType DEF FinishJob
  <1>2. CASE ~(v.status \in Terminal \/ ~Row(j))
    <2>1. JobsTableOK'
      BY <1>2 DEF FinishJob, TypeOK, JobsTableOK, Row, RowStatus
    <2>2. LockTableOK'
      BY <1>2 DEF FinishJob, TypeOK, LockTableOK
    <2>3. WorkersTableOK'
      BY <1>2 DEF FinishJob, TypeOK, WorkersTableOK
    <2> QED BY <2>1, <2>2, <2>3
  <1> QED BY <1>1, <1>2

\* Also when a preparation job ends instead of a GENUT job.
LEMMA EndWithType ==
  ASSUME TypeOK, NEW t \in Threads, thread[t].job \in Jobs,
         NEW v, NEW result \in Terminal, EndWith(t, v, result)
  PROVE  JobsTableOK' /\ LockTableOK' /\ WorkersTableOK'
  <1>1. CASE thread[t].role = "job"
    BY <1>1, FinishJobType DEF EndWith
  <1>2. CASE thread[t].role # "job"
    <2>1. FinishPrep(thread[t].job, result)
      BY <1>2 DEF EndWith
    <2>2. JobsTableOK'
      BY <2>1 DEF FinishPrep, TypeOK, JobsTableOK, Row, RowStatus
    <2> QED BY <2>1, <2>2, UnchangedType DEF FinishPrep
  <1> QED BY <1>1, <1>2

\* The end of a tick stays within the phases and the counter within its period.
LEMMA EndTickType ==
  ASSUME TypeOK, EndTick
  PROVE  loop' \in {"sweep", "claim"} /\ tick' \in 0..(SweepEvery - 1)
  BY ConstantsAssumption DEF TypeOK, LoopOK, EndTick

\* Releasing stale locks and workers keeps both tables well typed.
LEMMA ReleaseStaleType ==
  ASSUME TypeOK, NEW st, ReleaseStale(st)
  PROVE  LockTableOK' /\ WorkersTableOK'
  BY DEF TypeOK, LockTableOK, WorkersTableOK, ReleaseStale

-----------------------------------------------------------------------------
(* The actions *)

\* The steps of a thread, faults included, preserve the types.
LEMMA ThreadType ==
  ASSUME TypeOK, NEW t \in Threads, ThreadStep(t) \/ ThreadFault(t)
  PROVE  TypeOK'
  <1> DEFINE j == thread[t].job
  <1>0. /\ thread[t] \in Thread
        /\ thread[t].pc # "idle" => j \in Jobs
        /\ thread[t].pc = "run" => thread[t].seen.product \in Products
    BY DEF TypeOK, ThreadsOK
  <1>1. CASE StartJob(t)
    <2>1. j \in Jobs
      BY <1>0, <1>1 DEF StartJob
    <2>2. CASE ~Row(j)
      BY <1>1, <2>2, ReleaseThreadType, UnchangedType DEF StartJob, TypeOK
    <2>3. CASE Row(j) /\ genut[j] = None
      <3>1. FinishJob(j, Fresh(j), "failed") /\ Release(t)
        BY <1>1, <2>3 DEF StartJob
      <3> QED
        BY <1>1, <2>1, <3>1, FinishJobType, ReleaseThreadType, UnchangedType
           DEF StartJob, TypeOK, Terminal
    <2>4. CASE Row(j) /\ genut[j] # None
      <3> DEFINE th == [thread[t] EXCEPT !.pc = "run", !.seen = Fresh(j)]
      <3>1. th \in Thread /\ th.job \in Jobs /\ th.seen.product \in Products
        BY <1>0, <2>1, <2>4, FreshType DEF Thread, Phases
      <3>2. SetThread(t, th)
        BY <1>1, <2>4 DEF StartJob
      <3> HIDE DEF th
      <3> QED
        BY <1>1, <2>4, <3>1, <3>2, SetThreadType, UnchangedType DEF StartJob, TypeOK
    <2> QED BY <2>2, <2>3, <2>4
  <1>2. CASE StartJobFails(t)
    BY <1>2, ReleaseThreadType, SpendType, UnchangedType DEF StartJobFails, TypeOK
  <1>3. CASE StartPrep(t)
    <2>1. j \in Jobs
      BY <1>0, <1>3 DEF StartPrep
    <2>2. CASE Row(j) /\ Running(j)
      <3> DEFINE th == [thread[t] EXCEPT !.pc = "run", !.seen = Fresh(j)]
      <3>1. th \in Thread /\ th.job \in Jobs /\ th.seen.product \in Products
        BY <1>0, <2>1, <2>2, FreshType DEF Thread, Phases
      <3>2. SetThread(t, th)
        BY <1>3, <2>2 DEF StartPrep
      <3> HIDE DEF th
      <3> QED
        BY <1>3, <3>1, <3>2, SetThreadType, UnchangedType DEF StartPrep, TypeOK
    <2>3. CASE ~(Row(j) /\ Running(j))
      BY <1>3, <2>3, ReleaseThreadType, UnchangedType DEF StartPrep, TypeOK
    <2> QED BY <2>2, <2>3
  <1>4. CASE Register(t)
    <2>1. RegistryOK'
      BY <1>0, <1>4 DEF Register, TypeOK, RegistryOK
    <2> QED
      BY <1>4, <2>1, UnchangedType DEF Register, TypeOK
  <1>5. CASE AutoEnqueue(t)
    <2>1. PICK i \in Jobs : InsertJob(i, "genut", thread[t].seen.product)
      BY <1>5 DEF AutoEnqueue
    <2>2. thread[t].seen.product \in Products
      BY <1>0, <1>5 DEF AutoEnqueue
    <2>3. JobsTableOK'
      BY <2>1, <2>2, InsertType DEF Kinds
    <2> QED
      BY <1>5, <2>3, UnchangedType DEF AutoEnqueue, TypeOK
  <1>6. CASE RunReturns(t)
    <2>1. PICK o \in {"done", "failed"} :
            SetThread(t, [thread[t] EXCEPT
                            !.pc = "unregister",
                            !.outcome = IF j \in canceled THEN "canceled" ELSE o])
      BY <1>6 DEF RunReturns
    <2> DEFINE th == [thread[t] EXCEPT
                        !.pc = "unregister",
                        !.outcome = IF j \in canceled THEN "canceled" ELSE o]
    <2>2. th \in Thread /\ th.job \in Jobs /\ th.pc # "run"
      BY <1>0, <1>6 DEF RunReturns, Thread, Phases
    <2>3. SetThread(t, th)
      BY <2>1
    <2> HIDE DEF th
    <2> QED
      BY <1>6, <2>2, <2>3, SetThreadType, UnchangedType DEF RunReturns, TypeOK
  <1>7. CASE Unregister(t)
    <2> DEFINE th == [thread[t] EXCEPT !.pc = "finish"]
    <2>1. th \in Thread /\ th.job \in Jobs /\ th.pc # "run"
      BY <1>0, <1>7 DEF Unregister, Thread, Phases
    <2>2. SetThread(t, th)
      BY <1>7 DEF Unregister
    <2>3. RegistryOK'
      BY <1>7 DEF Unregister, Forget, TypeOK, RegistryOK
    <2> HIDE DEF th
    <2> QED
      BY <1>7, <2>1, <2>2, <2>3, SetThreadType, UnchangedType DEF Unregister, TypeOK
  <1>8. CASE Finish(t)
    <2>1. j \in Jobs /\ thread[t].outcome \in Terminal
      BY <1>0, <1>8 DEF Finish, Thread, Terminal
    <2>2. EndWith(t, thread[t].seen, thread[t].outcome) /\ Release(t)
      BY <1>8 DEF Finish
    <2> QED
      BY <1>8, <2>1, <2>2, EndWithType, ReleaseThreadType, UnchangedType
         DEF Finish, TypeOK
  <1>9. CASE FinishFallback(t)
    <2> DEFINE result == IF thread[t].outcome = "canceled" THEN "canceled" ELSE "failed"
    <2>1. j \in Jobs /\ result \in Terminal
      BY <1>0, <1>9 DEF FinishFallback, Terminal
    <2>2. EndWith(t, Fresh(j), result) /\ Release(t)
      BY <1>9 DEF FinishFallback
    <2> HIDE DEF result
    <2> QED
      BY <1>9, <2>1, <2>2, EndWithType, ReleaseThreadType, SpendType, UnchangedType
         DEF FinishFallback, TypeOK
  <1>10. CASE FinishLost(t)
    BY <1>10, ReleaseThreadType, SpendType, UnchangedType DEF FinishLost, TypeOK
  <1> QED
    BY <1>1, <1>2, <1>3, <1>4, <1>5, <1>6, <1>7, <1>8, <1>9, <1>10
       DEF ThreadStep, ThreadFault

\* What the reads of claim_jobs return is well typed.
LEMMA ClaimReadType ==
  ASSUME TypeOK, ClaimRead
  PROVE  plan' \subseteq Assignment
  <1> DEFINE eligible == FirstOfKey({j \in Jobs : status[j] = "queued" /\ kind[j] = "genut"})
             picked   == {j \in eligible :
                            Cardinality({i \in eligible : i < j}) < Cardinality(IdleWorkers)}
  <1>1. \A j \in picked : j \in Jobs /\ product[j] \in Products
    BY DEF FirstOfKey, TypeOK, JobsTableOK, Row, RowStatus
  <1>2. PICK f \in [picked -> IdleWorkers] :
          plan' = {[job |-> j, worker |-> f[j], product |-> product[j]] : j \in picked}
    BY DEF ClaimRead
  <1> HIDE DEF picked
  <1>3. \A j \in picked : f[j] \in Workers
    BY DEF IdleWorkers
  <1> QED
    BY <1>1, <1>2, <1>3 DEF Assignment

\* The assignments a claim keeps are of rows that exist and products that are free.
LEMMA KeptIsPlanned ==
  ASSUME TypeOK, \A a, b \in Refused : a = b
  PROVE  \A r \in Kept : /\ r \in plan /\ r \in Assignment
                         /\ Row(r.job) /\ lock[r.product] = None
  <1>1. plan \subseteq Assignment
    BY DEF TypeOK, LoopOK
  <1>2. \A r \in Kept : r \in plan
    BY DEF Kept
  <1>3. ASSUME NEW r \in Kept, r \in Refused
        PROVE  FALSE
    <2>1. PICK b \in Refused : b.job < r.job
      BY <1>3 DEF Kept
    <2>2. b = r
      BY <1>3
    <2>3. r.job \in Nat
      BY <1>1, <1>2, ConstantsAssumption DEF Assignment
    <2> QED
      BY <2>1, <2>2, <2>3
  <1> QED
    BY <1>1, <1>2, <1>3 DEF Refused

\* What its writes leave behind is well typed.
LEMMA ClaimWriteType ==
  ASSUME TypeOK, ClaimWrite
  PROVE  JobsTableOK' /\ LockTableOK' /\ WorkersTableOK' /\ toRun' \subseteq Task
  <1>1. \A r \in Kept : /\ r.job \in Jobs /\ r.worker \in Workers /\ Row(r.job)
    BY KeptIsPlanned DEF ClaimWrite, Assignment
  <1>2. JobsTableOK'
    <2>1. status' \in [Jobs -> RowStatus \cup {"none", "deleted"}]
      BY DEF ClaimWrite, TypeOK, JobsTableOK, RowStatus
    <2>2. age' \in [Jobs -> 0..2]
      BY DEF ClaimWrite, TypeOK, JobsTableOK
    <2>3. genut' \in [Jobs -> Workers \cup {None}]
      BY <1>1 DEF ClaimWrite, TypeOK, JobsTableOK
    <2>4. \A j \in Jobs : Row(j)' => product'[j] \in Products
      BY <1>1 DEF ClaimWrite, TypeOK, JobsTableOK, Row
    <2> QED
      BY <2>1, <2>2, <2>3, <2>4 DEF ClaimWrite, TypeOK, JobsTableOK
  <1>3. LockTableOK'
    BY <1>1 DEF ClaimWrite, TypeOK, LockTableOK
  <1>4. WorkersTableOK'
    BY <1>1 DEF ClaimWrite, TypeOK, WorkersTableOK
  <1>5. toRun' \subseteq Task
    BY DEF ClaimWrite, TypeOK, LoopOK, Assignment, Task
  <1> QED
    BY <1>2, <1>3, <1>4, <1>5

\* The steps of the scheduler loop preserve the types.
LEMMA LoopType ==
  ASSUME TypeOK, LoopStep \/ ReapLost \/ LoopError \/ (\E p \in Products : EnqueueDueCycle(p))
  PROVE  TypeOK'
  <1>1. CASE ClaimRead
    <2>1. LoopOK'
      BY <1>1, ClaimReadType DEF ClaimRead, TypeOK, LoopOK, LoopPhases
    <2> QED
      BY <1>1, <2>1, UnchangedType DEF ClaimRead, TypeOK
  <1>2. CASE ClaimWrite
    <2>1. LoopOK'
      BY <1>2, ClaimWriteType DEF ClaimWrite, TypeOK, LoopOK, LoopPhases
    <2> QED
      BY <1>2, <2>1, ClaimWriteType, UnchangedType DEF ClaimWrite, TypeOK
  <1>3. CASE ClaimAborts
    <2>1. LoopOK'
      BY <1>3 DEF ClaimAborts, TypeOK, LoopOK, LoopPhases
    <2> QED
      BY <1>3, <2>1, UnchangedType DEF ClaimAborts, TypeOK
  <1>4. CASE Dispatch
    <2>1. PICK k \in toRun, t \in Threads :
            /\ SetThread(t, [IdleThread EXCEPT !.pc = "start", !.job = k.job, !.role = k.role])
            /\ toRun' = toRun \ {k}
      BY <1>4 DEF Dispatch
    <2> DEFINE th == [IdleThread EXCEPT !.pc = "start", !.job = k.job, !.role = k.role]
    <2>2. th \in Thread /\ th.job \in Jobs /\ th.pc # "run"
      BY DEF TypeOK, LoopOK, Task, IdleThread, Thread, Phases, NothingSeen, Seen
    <2>3. ThreadsOK'
      <3>1. SetThread(t, th)
        BY <2>1
      <3> HIDE DEF th
      <3> QED BY <2>2, <3>1, SetThreadType
    <2>4. loop' \in {loop, "auto", "sweep", "claim"} /\ tick' \in 0..(SweepEvery - 1)
      BY <1>4, EndTickType DEF Dispatch, TypeOK, LoopOK
    <2>5. LoopOK'
      BY <1>4, <2>1, <2>4 DEF Dispatch, TypeOK, LoopOK, LoopPhases
    <2> QED
      BY <1>4, <2>3, <2>5, UnchangedType DEF Dispatch, TypeOK
  <1>5. CASE ClaimPrepRead
    <2>1. loop' \in {"assignPrep", "sweep", "claim"} /\ tick' \in 0..(SweepEvery - 1)
      BY <1>5, EndTickType DEF ClaimPrepRead, TypeOK, LoopOK
    <2>2. picks' \subseteq Jobs /\ UNCHANGED <<plan, toRun, stuck, reaping>>
      BY <1>5 DEF ClaimPrepRead, FirstOfKey
    <2>3. LoopOK'
      BY <2>1, <2>2 DEF TypeOK, LoopOK, LoopPhases
    <2> QED
      BY <1>5, <2>3, UnchangedType DEF ClaimPrepRead, TypeOK
  <1>14. CASE ClaimPrepWrite
    <2>1. picks \subseteq Jobs
      BY DEF TypeOK, LoopOK
    <2>2. JobsTableOK'
      BY <1>14, <2>1 DEF ClaimPrepWrite, TypeOK, JobsTableOK, Row, RowStatus
    <2>3. toRun' \subseteq Task
      BY <1>14, <2>1 DEF ClaimPrepWrite, Task
    <2>4. LoopOK'
      BY <1>14, <2>3 DEF ClaimPrepWrite, TypeOK, LoopOK, LoopPhases
    <2> QED
      BY <1>14, <2>2, <2>4, UnchangedType DEF ClaimPrepWrite, TypeOK
  <1>15. CASE ClaimPrepLost
    <2>1. LoopOK'
      BY <1>15 DEF ClaimPrepLost, TypeOK, LoopOK, LoopPhases
    <2> QED
      BY <1>15, <2>1, UnchangedType DEF ClaimPrepLost, TypeOK
  <1>6. CASE ReleaseStaleLocks
    <2>1. LoopOK'
      BY <1>6 DEF ReleaseStaleLocks, TypeOK, LoopOK, LoopPhases
    <2> QED
      BY <1>6, <2>1, ReleaseStaleType, UnchangedType DEF ReleaseStaleLocks, TypeOK
  <1>7. CASE ReapScan
    <2>1. LoopOK'
      BY <1>7 DEF ReapScan, TypeOK, LoopOK, LoopPhases
    <2> QED
      BY <1>7, <2>1, UnchangedType DEF ReapScan, TypeOK
  <1>8. CASE ReapKill
    <2>1. LoopOK' /\ RegistryOK'
      BY <1>8 DEF ReapKill, TypeOK, LoopOK, LoopPhases, RegistryOK
    <2> QED
      BY <1>8, <2>1, UnchangedType DEF ReapKill, TypeOK
  <1>9. CASE ReapFinish
    <2>1. LoopOK' /\ RegistryOK'
      BY <1>9 DEF ReapFinish, Forget, TypeOK, LoopOK, LoopPhases, RegistryOK
    <2>2. reaping \in Jobs
      BY <1>9 DEF ReapFinish, TypeOK, LoopOK
    <2>3. PICK v : FinishJob(reaping, v, "failed")
      BY <1>9 DEF ReapFinish
    <2>4. JobsTableOK' /\ LockTableOK' /\ WorkersTableOK'
      BY <2>2, <2>3, FinishJobType DEF Terminal
    <2> QED
      BY <1>9, <2>1, <2>4, UnchangedType DEF ReapFinish, TypeOK
  <1>10. CASE LoopError
    <2>1. LoopOK'
      BY <1>10 DEF LoopError, TypeOK, LoopOK, LoopPhases
    <2> QED
      BY <1>10, <2>1, SpendType, UnchangedType DEF LoopError, TypeOK
  <1>11. CASE \E p \in Products : EnqueueDueCycle(p)
    BY <1>11, CycleType, UnchangedType DEF EnqueueDueCycle, TypeOK
  <1>12. CASE ClaimLoad
    <2>1. \A r \in plan : Row(r.job) =>
            r \in Assignment /\ [r EXCEPT !.product = product[r.job]] \in Assignment
      BY DEF TypeOK, JobsTableOK, LoopOK, Assignment
    <2>2. LoopOK'
      BY <1>12, <2>1 DEF ClaimLoad, TypeOK, LoopOK, LoopPhases
    <2> QED
      BY <1>12, <2>2, UnchangedType DEF ClaimLoad, TypeOK
  <1>13. CASE ReapLost
    <2>1. LoopOK'
      BY <1>13 DEF ReapLost, TypeOK, LoopOK, LoopPhases
    <2> QED
      BY <1>13, <2>1, UnchangedType DEF ReapLost, TypeOK
  <1> QED
    BY <1>1, <1>2, <1>3, <1>4, <1>5, <1>6, <1>7, <1>8, <1>9, <1>10, <1>11, <1>12, <1>13,
       <1>14, <1>15
       DEF LoopStep

\* The steps of the HTTP handlers preserve the types.
LEMMA ClientType ==
  ASSUME TypeOK, ClientStep
  PROVE  TypeOK'
  <1>1. ASSUME NEW p \in Products, SubmitRequest(p)
        PROVE  TypeOK'
    <2>1. JobsTableOK'
      BY <1>1, InsertType DEF SubmitRequest, Kinds
    <2> QED
      BY <1>1, <2>1, UnchangedType DEF SubmitRequest, TypeOK
  <1>2. ASSUME NEW p \in Products, CancelAllJobs(p)
        PROVE  TypeOK'
    <2>1. JobsTableOK' /\ CallsOK'
      BY <1>2 DEF CancelAllJobs, TypeOK, JobsTableOK, CallsOK, Row, RowStatus, Terminal
    <2> QED
      BY <1>2, <2>1, UnchangedType DEF CancelAllJobs, TypeOK
  <1>3. ASSUME NEW p \in Products, CancelAllScan(p)
        PROVE  TypeOK'
    <2>1. CallsOK'
      BY <1>3 DEF CancelAllScan, TypeOK, CallsOK
    <2> QED
      BY <1>3, <2>1, UnchangedType DEF CancelAllScan, TypeOK
  <1>4. ASSUME NEW p \in Products, DeleteFinishedJobs(p)
        PROVE  TypeOK'
    <2>1. JobsTableOK'
      BY <1>4, DeleteType DEF DeleteFinishedJobs
    <2> QED
      BY <1>4, <2>1, UnchangedType DEF DeleteFinishedJobs, TypeOK
  <1>5. ASSUME NEW p \in Products, RunAutoNow(p)
        PROVE  TypeOK'
    <2>1. CallsOK'
      BY <1>5 DEF RunAutoNow, TypeOK, CallsOK
    <2> QED
      BY <1>5, <2>1, UnchangedType DEF RunAutoNow, TypeOK
  <1>6. ASSUME NEW p \in Products, RunAutoNowInsert(p)
        PROVE  TypeOK'
    <2>1. JobsTableOK'
      BY <1>6, CycleType DEF RunAutoNowInsert
    <2>2. CallsOK'
      BY <1>6 DEF RunAutoNowInsert, TypeOK, CallsOK
    <2> QED
      BY <1>6, <2>1, <2>2, UnchangedType DEF RunAutoNowInsert, TypeOK
  <1>7. ASSUME NEW j \in Jobs, RerunJob(j)
        PROVE  TypeOK'
    <2>1. kind[j] \in Kinds /\ product[j] \in Products
      BY <1>7 DEF RerunJob, TypeOK, JobsTableOK, Row, RowStatus
    <2>2. JobsTableOK'
      BY <1>7, <2>1, InsertType DEF RerunJob
    <2> QED
      BY <1>7, <2>2, UnchangedType DEF RerunJob, TypeOK
  <1>8. ASSUME NEW j \in Jobs, CancelJob(j)
        PROVE  TypeOK'
    <2>1. CallsOK'
      BY <1>8 DEF CancelJob, TypeOK, CallsOK
    <2> QED
      BY <1>8, <2>1, UnchangedType DEF CancelJob, TypeOK
  <1>9. ASSUME NEW j \in Jobs, Kill(j)
        PROVE  TypeOK'
    <2>1. CallsOK' /\ RegistryOK'
      BY <1>9 DEF Kill, TypeOK, CallsOK, RegistryOK
    <2> QED
      BY <1>9, <2>1, UnchangedType DEF Kill, TypeOK
  <1>10. ASSUME NEW j \in Jobs, DeleteJob(j)
         PROVE  TypeOK'
    <2>1. JobsTableOK'
      BY <1>10, DeleteType DEF DeleteJob
    <2> QED
      BY <1>10, <2>1, UnchangedType DEF DeleteJob, TypeOK
  <1>11. ASSUME NEW w \in Workers, SetEnabled(w)
         PROVE  TypeOK'
    <2>1. WorkersTableOK'
      BY <1>11 DEF SetEnabled, TypeOK, WorkersTableOK
    <2> QED
      BY <1>11, <2>1, UnchangedType DEF SetEnabled, TypeOK
  <1> QED
    BY <1>1, <1>2, <1>3, <1>4, <1>5, <1>6, <1>7, <1>8, <1>9, <1>10, <1>11 DEF ClientStep

\* Time, crashes and restarts preserve the types.
LEMMA EnvironmentType ==
  ASSUME TypeOK, (\E j \in Jobs : Age(j)) \/ Crash \/ Boot \/ BootFails
  PROVE  TypeOK'
  <1>1. CASE \E j \in Jobs : Age(j)
    <2>1. JobsTableOK'
      BY <1>1 DEF Age, TypeOK, JobsTableOK, Row
    <2> QED
      BY <1>1, <2>1, UnchangedType DEF Age, TypeOK
  <1>2. CASE Crash
    <2>1. IdleThread \in Thread /\ IdleThread.pc = "idle"
      BY DEF IdleThread, Thread, Phases, NothingSeen, Seen
    <2>2. ThreadsOK'
      BY <1>2, <2>1 DEF Crash, ThreadsOK
    <2>3. LoopOK' /\ RegistryOK' /\ CallsOK' /\ BudgetsOK'
      BY <1>2, ConstantsAssumption
         DEF Crash, TypeOK, LoopOK, LoopPhases, RegistryOK, CallsOK, BudgetsOK
    <2> QED
      BY <1>2, <2>2, <2>3, UnchangedType DEF Crash, TypeOK
  <1>3. ASSUME status' = Interrupted, age' = [j \in Jobs |-> 0],
               UNCHANGED <<kind, product, genut>>
        PROVE  JobsTableOK'
    BY <1>3 DEF Interrupted, Running, TypeOK, JobsTableOK, Row, RowStatus, Terminal
  <1>4. CASE Boot
    <2>1. LoopOK'
      BY <1>4 DEF Boot, TypeOK, LoopOK, LoopPhases
    <2>2. LockTableOK' /\ WorkersTableOK'
      BY <1>4, ReleaseStaleType DEF Boot
    <2> QED
      BY <1>3, <1>4, <2>1, <2>2, UnchangedType DEF Boot, TypeOK
  <1>5. CASE BootFails
    <2>1. LoopOK'
      BY <1>5 DEF BootFails, TypeOK, LoopOK, LoopPhases
    <2>2. JobsTableOK'
      BY <1>3, <1>5, UnchangedType DEF BootFails, jobsTable
    <2> QED
      BY <1>5, <2>1, <2>2, SpendType, UnchangedType DEF BootFails, TypeOK
  <1> QED
    BY <1>1, <1>2, <1>4, <1>5

-----------------------------------------------------------------------------
(* The theorem *)

\* A database without jobs, a scheduler about to boot.
LEMMA InitType == Init => TypeOK
  <1> SUFFICES ASSUME Init PROVE TypeOK
    OBVIOUS
  <1>1. JobsTableOK /\ LockTableOK /\ WorkersTableOK /\ RegistryOK /\ CallsOK /\ BudgetsOK
    BY ConstantsAssumption
       DEF Init, JobsTableOK, LockTableOK, WorkersTableOK, RegistryOK, CallsOK, BudgetsOK,
           Kinds, Row, RowStatus, Terminal
  <1>2. ThreadsOK
    BY DEF Init, ThreadsOK, IdleThread, Thread, Phases, NothingSeen, Seen
  <1>3. LoopOK
    BY ConstantsAssumption DEF Init, LoopOK, LoopPhases
  <1> QED
    BY <1>1, <1>2, <1>3 DEF TypeOK

\* Every step preserves the types.
LEMMA NextType == TypeOK /\ [Next]_vars => TypeOK'
  <1> SUFFICES ASSUME TypeOK, [Next]_vars PROVE TypeOK'
    OBVIOUS
  <1>1. CASE UNCHANGED vars
    BY <1>1, UnchangedType DEF vars, TypeOK
  <1>2. CASE Next
    BY <1>2, ThreadType, LoopType, ClientType, EnvironmentType DEF Next
  <1> QED BY <1>1, <1>2

\* Every variable keeps its type; in particular each row has a product, and a
\* thread that is not idle, like a reaper about to finish a job, has a job.
THEOREM TypeCorrect == Spec => []TypeOK
  <1>1. Init => TypeOK
    BY InitType
  <1>2. TypeOK /\ [Next]_vars => TypeOK'
    BY NextType
  <1> QED
    BY <1>1, <1>2, PTL DEF Spec


-----------------------------------------------------------------------------
(* Steps that start nothing.  Every step but the claims is one.              *)

\* Job j comes after all jobs there have been.
Latest(j) == \A k \in Jobs : status[k] # "none" => k < j

\* No job starts to run, the queue grows at its end, and a row keeps its product and
\* kind while it exists.
NoJobStarts ==
  \A j \in Jobs :
    /\ Running(j)' => Running(j)
    /\ status'[j] = "queued" => status[j] = "queued" \/ Latest(j)
    /\ status[j] # "none" => status'[j] # "none"
    /\ Row(j)' /\ status[j] # "none" =>
         Row(j) /\ product'[j] = product[j] /\ kind'[j] = kind[j]

\* No lock is taken, and those of running jobs are kept.
NoLockIsTaken ==
  \A p \in Products :
    /\ lock'[p] # None => lock'[p] = lock[p]
    /\ lock[p] \in Jobs /\ status'[lock[p]] = "running" => lock'[p] = lock[p]

\* What claim_jobs read is still to be written, or forgotten.
PlanIsKept ==
  plan' = {} \/ (plan' = plan /\ (loop \in {"load", "assign"} => loop' = loop))

\* And so is what claim_prep_jobs read.
PicksAreKept ==
  picks' = {} \/ (picks' = picks /\ (loop = "assignPrep" => loop' = loop))

NothingStarts == NoJobStarts /\ NoLockIsTaken /\ PlanIsKept /\ PicksAreKept

\* A running job keeps running for the same product and as the same kind.
LEMMA RunningIsKept ==
  ASSUME NoJobStarts, NEW j \in Jobs, Running(j)'
  PROVE  Running(j) /\ product'[j] = product[j] /\ kind'[j] = kind[j]
  BY DEF NoJobStarts, Running, Row, RowStatus

\* What comes last is no older than what a claim has chosen.
LEMMA PlanStaysOldest ==
  ASSUME TypeOK, TypeOK', KeysAreOwned, NothingStarts
  PROVE  PlanIsOldest'
  <1> SUFFICES ASSUME NEW r \in plan', NEW i \in Jobs,
                      status'[i] = "queued", ~IsPrep(i)', Key(i)' = KeyOf[r.product]
               PROVE  r.job <= i
    BY DEF PlanIsOldest
  <1>1. r \in plan /\ r.job \in Jobs /\ status[r.job] # "none"
    BY DEF NothingStarts, PlanIsKept, TypeOK, LoopOK, Assignment, KeysAreOwned, PlanHolds
  <1>2. CASE Latest(i)
    <2>1. r.job \in Nat /\ i \in Nat
      BY <1>1, ConstantsAssumption
    <2>2. r.job < i
      BY <1>1, <1>2 DEF Latest
    <2> QED
      BY <2>1, <2>2
  <1>3. CASE status[i] = "queued"
    <2>1. product'[i] = product[i] /\ kind'[i] = kind[i]
      BY <1>3 DEF NothingStarts, NoJobStarts, Row, RowStatus
    <2> QED
      BY <1>1, <1>3, <2>1 DEF KeysAreOwned, PlanIsOldest, Key, IsPrep
  <1> QED
    BY <1>2, <1>3 DEF NothingStarts, NoJobStarts

\* Nor is it older than what claim_prep_jobs has chosen.
LEMMA PicksStayOldest ==
  ASSUME TypeOK, KeysAreOwned, NothingStarts
  PROVE  PicksAreOldest'
  <1> SUFFICES ASSUME NEW j \in picks', NEW i \in Jobs, Row(j)',
                      status'[i] = "queued", IsPrep(i)', Key(i)' = Key(j)'
               PROVE  j <= i
    BY DEF PicksAreOldest
  <1>1. j \in picks /\ j \in Jobs /\ status[j] # "none"
    BY DEF NothingStarts, PicksAreKept, TypeOK, LoopOK, KeysAreOwned, PicksHold
  <1>2. Row(j) /\ product'[j] = product[j] /\ kind'[j] = kind[j]
    BY <1>1 DEF NothingStarts, NoJobStarts
  <1>3. CASE Latest(i)
    <2>1. j \in Nat /\ i \in Nat
      BY <1>1, ConstantsAssumption
    <2>2. j < i
      BY <1>1, <1>3 DEF Latest
    <2> QED
      BY <2>1, <2>2
  <1>4. CASE status[i] = "queued"
    <2>1. product'[i] = product[i] /\ kind'[i] = kind[i]
      BY <1>4 DEF NothingStarts, NoJobStarts, Row, RowStatus
    <2> QED
      BY <1>1, <1>2, <1>4, <2>1 DEF KeysAreOwned, PicksAreOldest, Key, IsPrep
  <1> QED
    BY <1>3, <1>4 DEF NothingStarts, NoJobStarts

\* A step that starts nothing keeps the keys owned.
LEMMA NothingStartsKeeps ==
  ASSUME TypeOK, TypeOK', KeysAreOwned, NothingStarts
  PROVE  KeysAreOwned'
  <1> USE DEF NothingStarts
  <1>1. RunningHoldsLock'
    <2> SUFFICES ASSUME NEW j \in Jobs, Running(j)', ~IsPrep(j)'
                 PROVE  lock'[product'[j]] = j
      BY DEF RunningHoldsLock
    <2>1. Running(j) /\ product'[j] = product[j] /\ ~IsPrep(j)
      BY RunningIsKept DEF IsPrep
    <2>2. lock[product[j]] = j /\ product[j] \in Products
      BY <2>1 DEF KeysAreOwned, RunningHoldsLock, TypeOK, JobsTableOK, Row, Running, RowStatus
    <2>3. status'[j] = "running"
      BY DEF Running
    <2> QED
      BY <2>1, <2>2, <2>3 DEF NoLockIsTaken
  <1>2. \A p \in Products : lock'[p] # None => lock'[p] = lock[p]
    BY DEF NoLockIsTaken
  <1>3. OneLockPerKey'
    BY <1>2 DEF KeysAreOwned, OneLockPerKey
  <1>4. PrepsExcludeLocks'
    BY <1>2, RunningIsKept DEF KeysAreOwned, PrepsExcludeLocks, IsPrep, Key
  <1>5. OnePrepPerKey'
    BY RunningIsKept DEF KeysAreOwned, OnePrepPerKey, IsPrep, Key
  <1>6. BusyKeys' \subseteq BusyKeys
    BY <1>2, RunningIsKept DEF BusyKeys, IsPrep, Key
  <1>7. PlanHolds'
    <2>1. CASE plan' = {}
      BY <2>1 DEF PlanHolds
    <2>2. CASE plan' = plan /\ (loop \in {"load", "assign"} => loop' = loop)
      <3>1. \A r \in plan : r.job \in Jobs
        BY DEF TypeOK, LoopOK, Assignment
      <3>2. \A r \in plan : /\ status'[r.job] # "none"
                            /\ Row(r.job)' => product'[r.job] = r.product /\ ~IsPrep(r.job)'
        BY <3>1 DEF NoJobStarts, KeysAreOwned, PlanHolds, IsPrep
      <3> QED
        BY <1>6, <2>2, <3>2 DEF KeysAreOwned, PlanHolds
    <2> QED
      BY <2>1, <2>2 DEF PlanIsKept
  <1>8. PicksHold'
    <2>1. CASE picks' = {}
      BY <2>1 DEF PicksHold
    <2>2. CASE picks' = picks /\ (loop = "assignPrep" => loop' = loop)
      <3>1. picks \subseteq Jobs
        BY DEF TypeOK, LoopOK
      <3>2. \A j \in picks : /\ status'[j] # "none"
                             /\ Row(j)' => Row(j) /\ Key(j)' = Key(j) /\ (IsPrep(j)' <=> IsPrep(j))
        BY <3>1 DEF NoJobStarts, KeysAreOwned, PicksHold, IsPrep, Key
      <3> QED
        BY <1>6, <2>2, <3>2 DEF KeysAreOwned, PicksHold
    <2> QED
      BY <2>1, <2>2 DEF PicksAreKept
  <1> QED
    BY <1>1, <1>3, <1>4, <1>5, <1>7, <1>8, PlanStaysOldest, PicksStayOldest DEF KeysAreOwned

-----------------------------------------------------------------------------
(* The operators that start nothing *)

\* Nothing starts where nothing changes.
LEMMA UnchangedStartsNothing ==
  /\ UNCHANGED <<status, kind, product>> => NoJobStarts
  /\ UNCHANGED jobsTable => NoJobStarts
  /\ UNCHANGED lock => NoLockIsTaken
  /\ UNCHANGED loopVars => PlanIsKept /\ PicksAreKept
  BY DEF NoJobStarts, NoLockIsTaken, PlanIsKept, PicksAreKept, jobsTable, loopVars, Running, Row

\* The next id is free and comes last.
LEMMA NextIdIsLatest ==
  ASSUME NEW i, NextId(i)
  PROVE  i \in Jobs /\ status[i] = "none" /\ Latest(i)
  BY ConstantsAssumption DEF NextId, Latest

\* An inserted row is queued, at the end.
LEMMA InsertStartsNothing ==
  ASSUME TypeOK, NEW i \in Jobs, NEW k, NEW p, InsertJob(i, k, p)
  PROVE  NoJobStarts
  <1>1. status[i] = "none" /\ Latest(i)
    BY NextIdIsLatest DEF InsertJob
  <1> QED
    BY <1>1 DEF TypeOK, JobsTableOK, InsertJob, NoJobStarts, Running, Row, RowStatus

\* The same for a cycle's pair.
LEMMA CycleStartsNothing ==
  ASSUME TypeOK, NEW p \in Products, InsertCycle(p)
  PROVE  NoJobStarts
  <1>1. PICK i \in Jobs, k \in Jobs :
          /\ NextId(i)
          /\ k = i + 1
          /\ status'  = [status  EXCEPT ![i] = "queued", ![k] = "queued"]
          /\ kind'    = [kind    EXCEPT ![i] = "auto_diff", ![k] = "auto_scan"]
          /\ product' = [product EXCEPT ![i] = p, ![k] = p]
    BY DEF InsertCycle
  <1>2. /\ status[i] = "none" /\ Latest(i)
        /\ status[k] = "none" /\ Latest(k)
    BY <1>1, NextIdIsLatest, ConstantsAssumption DEF NextId, Latest
  <1> QED
    BY <1>1, <1>2 DEF TypeOK, JobsTableOK, NoJobStarts, Running, Row, RowStatus

\* Without reuse, a deleted id never becomes free again.
LEMMA DeleteStartsNothing ==
  ASSUME ~ReuseIds, TypeOK, NEW S, DeleteRows(S)
  PROVE  NoJobStarts
  BY DEF TypeOK, JobsTableOK, DeleteRows, NoJobStarts, Running, Row, RowStatus, Terminal

\* A finishing job gives up its own lock and no other.
LEMMA FinishJobStartsNothing ==
  ASSUME TypeOK, NEW j \in Jobs, NEW v, NEW result \in Terminal, FinishJob(j, v, result)
  PROVE  NoJobStarts /\ NoLockIsTaken
  <1>1. CASE v.status \in Terminal \/ ~Row(j)
    BY <1>1, UnchangedStartsNothing DEF FinishJob
  <1>2. CASE ~(v.status \in Terminal \/ ~Row(j))
    <2>1. /\ status' = [status EXCEPT ![j] = result]
          /\ lock' = [lock EXCEPT ![v.product] = IF @ = j THEN None ELSE @]
          /\ UNCHANGED <<kind, product>>
      BY <1>2 DEF FinishJob
    <2>2. NoJobStarts
      BY <1>2, <2>1 DEF TypeOK, JobsTableOK, NoJobStarts, Running, Row, RowStatus, Terminal
    <2>3. NoLockIsTaken
      <3> SUFFICES ASSUME NEW p \in Products
                   PROVE  /\ lock'[p] # None => lock'[p] = lock[p]
                          /\ lock[p] \in Jobs /\ status'[lock[p]] = "running"
                               => lock'[p] = lock[p]
        BY DEF NoLockIsTaken
      <3>1. lock'[p] = lock[p] \/ (lock[p] = j /\ lock'[p] = None)
        BY <2>1 DEF TypeOK, LockTableOK
      <3>2. status'[j] # "running"
        BY <2>1 DEF TypeOK, JobsTableOK, Terminal
      <3> QED
        BY <3>1, <3>2
    <2> QED BY <2>2, <2>3
  <1> QED BY <1>1, <1>2

\* Nor does a thread that ends a preparation job.
LEMMA EndWithStartsNothing ==
  ASSUME TypeOK, NEW t \in Threads, thread[t].job \in Jobs,
         NEW v, NEW result \in Terminal, EndWith(t, v, result)
  PROVE  NoJobStarts /\ NoLockIsTaken
  <1>1. CASE thread[t].role = "job"
    BY <1>1, FinishJobStartsNothing DEF EndWith
  <1>2. CASE thread[t].role # "job"
    <2>1. FinishPrep(thread[t].job, result)
      BY <1>2 DEF EndWith
    <2>2. NoJobStarts
      BY <2>1 DEF FinishPrep, TypeOK, JobsTableOK, NoJobStarts, Running, Row, RowStatus, Terminal
    <2> QED
      BY <2>1, <2>2, UnchangedStartsNothing DEF FinishPrep
  <1> QED BY <1>1, <1>2

\* The sweep takes no lock from a running job.
LEMMA ReleaseStaleStartsNothing ==
  ASSUME TypeOK, ReleaseStale(status')
  PROVE  NoLockIsTaken
  BY DEF TypeOK, LockTableOK, ReleaseStale, NoLongerLive, NoLockIsTaken

-----------------------------------------------------------------------------
(* The actions that start nothing *)

\* No step of a thread starts a job, a late or failing one included.
LEMMA ThreadStartsNothing ==
  ASSUME TypeOK, NEW t \in Threads, ThreadStep(t) \/ ThreadFault(t)
  PROVE  NothingStarts
  <1>0. thread[t].pc # "idle" => thread[t].job \in Jobs /\ thread[t].outcome \in Terminal
    BY DEF TypeOK, ThreadsOK, Thread, Terminal
  <1>1. CASE StartJob(t)
    <2>1. CASE FinishJob(thread[t].job, Fresh(thread[t].job), "failed")
      BY <1>0, <1>1, <2>1, FinishJobStartsNothing, UnchangedStartsNothing
         DEF StartJob, NothingStarts, Terminal
    <2>2. CASE UNCHANGED <<jobsTable, lock, workersTable>>
      BY <1>1, <2>2, UnchangedStartsNothing DEF StartJob, NothingStarts
    <2> QED BY <1>1, <2>1, <2>2 DEF StartJob
  <1>2. CASE StartJobFails(t)
    BY <1>2, UnchangedStartsNothing DEF StartJobFails, NothingStarts
  <1>3. CASE StartPrep(t)
    BY <1>3, UnchangedStartsNothing DEF StartPrep, NothingStarts
  <1>4. CASE Register(t)
    BY <1>4, UnchangedStartsNothing DEF Register, NothingStarts
  <1>5. CASE AutoEnqueue(t)
    BY <1>5, InsertStartsNothing, UnchangedStartsNothing DEF AutoEnqueue, NothingStarts
  <1>6. CASE RunReturns(t)
    BY <1>6, UnchangedStartsNothing DEF RunReturns, NothingStarts
  <1>7. CASE Unregister(t)
    BY <1>7, UnchangedStartsNothing DEF Unregister, NothingStarts
  <1>8. CASE Finish(t)
    BY <1>0, <1>8, EndWithStartsNothing, UnchangedStartsNothing DEF Finish, NothingStarts
  <1>9. CASE FinishFallback(t)
    BY <1>0, <1>9, EndWithStartsNothing, UnchangedStartsNothing
       DEF FinishFallback, NothingStarts, Terminal
  <1>10. CASE FinishLost(t)
    BY <1>10, UnchangedStartsNothing DEF FinishLost, NothingStarts
  <1> QED
    BY <1>1, <1>2, <1>3, <1>4, <1>5, <1>6, <1>7, <1>8, <1>9, <1>10
       DEF ThreadStep, ThreadFault

\* Nor does a step of the loop, but for the claims.
LEMMA LoopStartsNothing ==
  ASSUME TypeOK,
         \/ ClaimAborts \/ Dispatch \/ ReleaseStaleLocks
         \/ ReapScan \/ ReapKill \/ ReapFinish \/ ReapLost \/ LoopError
         \/ ClaimPrepLost \/ \E p \in Products : EnqueueDueCycle(p)
  PROVE  NothingStarts
  <1>1. CASE ClaimAborts
    BY <1>1, UnchangedStartsNothing DEF ClaimAborts, NothingStarts, PlanIsKept, PicksAreKept
  <1>2. CASE Dispatch
    BY <1>2, UnchangedStartsNothing DEF Dispatch, NothingStarts, PlanIsKept, PicksAreKept
  <1>3. CASE ReleaseStaleLocks
    <2>1. NoLockIsTaken
      BY <1>3, ReleaseStaleStartsNothing DEF ReleaseStaleLocks, jobsTable
    <2> QED
      BY <1>3, <2>1, UnchangedStartsNothing DEF ReleaseStaleLocks, NothingStarts, PlanIsKept, PicksAreKept
  <1>4. CASE ReapScan
    BY <1>4, UnchangedStartsNothing DEF ReapScan, NothingStarts, PlanIsKept, PicksAreKept
  <1>5. CASE ReapKill
    BY <1>5, UnchangedStartsNothing DEF ReapKill, NothingStarts, PlanIsKept, PicksAreKept
  <1>6. CASE ReapFinish
    <2>1. reaping \in Jobs
      BY <1>6 DEF ReapFinish, TypeOK, LoopOK
    <2> QED
      BY <1>6, <2>1, FinishJobStartsNothing
         DEF ReapFinish, NothingStarts, PlanIsKept, PicksAreKept, Terminal
  <1>7. CASE LoopError
    BY <1>7, UnchangedStartsNothing DEF LoopError, NothingStarts, PlanIsKept, PicksAreKept
  <1>8. CASE \E p \in Products : EnqueueDueCycle(p)
    BY <1>8, CycleStartsNothing, UnchangedStartsNothing DEF EnqueueDueCycle, NothingStarts
  <1>9. CASE ReapLost
    BY <1>9, UnchangedStartsNothing DEF ReapLost, NothingStarts, PlanIsKept, PicksAreKept
  <1>10. CASE ClaimPrepLost
    BY <1>10, UnchangedStartsNothing DEF ClaimPrepLost, NothingStarts, PlanIsKept, PicksAreKept
  <1> QED
    BY <1>1, <1>2, <1>3, <1>4, <1>5, <1>6, <1>7, <1>8, <1>9, <1>10

\* Nor does a request: what they queue, the scheduler starts.
LEMMA ClientStartsNothing ==
  ASSUME ~ReuseIds, TypeOK, ClientStep
  PROVE  NothingStarts
  <1>1. ASSUME NEW p \in Products, SubmitRequest(p)
        PROVE  NothingStarts
    BY <1>1, InsertStartsNothing, UnchangedStartsNothing DEF SubmitRequest, NothingStarts
  <1>2. ASSUME NEW p \in Products, CancelAllJobs(p)
        PROVE  NothingStarts
    <2>1. NoJobStarts
      BY <1>2 DEF CancelAllJobs, TypeOK, JobsTableOK, NoJobStarts, Running, Row, RowStatus,
                  Terminal
    <2> QED
      BY <1>2, <2>1, UnchangedStartsNothing DEF CancelAllJobs, NothingStarts
  <1>3. ASSUME NEW p \in Products, CancelAllScan(p)
        PROVE  NothingStarts
    BY <1>3, UnchangedStartsNothing DEF CancelAllScan, NothingStarts
  <1>4. ASSUME NEW p \in Products, DeleteFinishedJobs(p)
        PROVE  NothingStarts
    BY <1>4, DeleteStartsNothing, UnchangedStartsNothing DEF DeleteFinishedJobs, NothingStarts
  <1>5. ASSUME NEW p \in Products, RunAutoNow(p)
        PROVE  NothingStarts
    BY <1>5, UnchangedStartsNothing DEF RunAutoNow, NothingStarts
  <1>6. ASSUME NEW p \in Products, RunAutoNowInsert(p)
        PROVE  NothingStarts
    BY <1>6, CycleStartsNothing, UnchangedStartsNothing DEF RunAutoNowInsert, NothingStarts
  <1>7. ASSUME NEW j \in Jobs, RerunJob(j)
        PROVE  NothingStarts
    BY <1>7, InsertStartsNothing, UnchangedStartsNothing DEF RerunJob, NothingStarts
  <1>8. ASSUME NEW j \in Jobs, CancelJob(j)
        PROVE  NothingStarts
    BY <1>8, UnchangedStartsNothing DEF CancelJob, NothingStarts
  <1>9. ASSUME NEW j \in Jobs, Kill(j)
        PROVE  NothingStarts
    BY <1>9, UnchangedStartsNothing DEF Kill, NothingStarts
  <1>10. ASSUME NEW j \in Jobs, DeleteJob(j)
         PROVE  NothingStarts
    BY <1>10, DeleteStartsNothing, UnchangedStartsNothing DEF DeleteJob, NothingStarts
  <1>11. ASSUME NEW w \in Workers, SetEnabled(w)
         PROVE  NothingStarts
    BY <1>11, UnchangedStartsNothing DEF SetEnabled, NothingStarts
  <1> QED
    BY <1>1, <1>2, <1>3, <1>4, <1>5, <1>6, <1>7, <1>8, <1>9, <1>10, <1>11 DEF ClientStep

\* Nor do time, a crash or a restart.
LEMMA EnvironmentStartsNothing ==
  ASSUME TypeOK, (\E j \in Jobs : Age(j)) \/ Crash \/ Boot \/ BootFails
  PROVE  NothingStarts
  <1>1. CASE \E j \in Jobs : Age(j)
    BY <1>1, UnchangedStartsNothing DEF Age, NothingStarts
  <1>2. CASE Crash
    BY <1>2, UnchangedStartsNothing DEF Crash, NothingStarts, PlanIsKept, PicksAreKept
  <1>3. ASSUME status' = Interrupted, UNCHANGED <<kind, product>>
        PROVE  NoJobStarts
    BY <1>3 DEF Interrupted, TypeOK, JobsTableOK, NoJobStarts, Running, Row, RowStatus,
                Terminal
  <1>4. CASE Boot
    <2>1. NoLockIsTaken
      BY <1>4, ReleaseStaleStartsNothing DEF Boot
    <2> QED
      BY <1>3, <1>4, <2>1 DEF Boot, NothingStarts, PlanIsKept, PicksAreKept
  <1>5. CASE BootFails
    BY <1>3, <1>5, UnchangedStartsNothing DEF BootFails, NothingStarts, PlanIsKept, PicksAreKept
  <1> QED
    BY <1>1, <1>2, <1>4, <1>5

-----------------------------------------------------------------------------
(* The claims *)

\* Nothing is chosen while nothing is being written.
LEMMA NoPicks ==
  ASSUME KeysAreOwned, loop # "assignPrep"
  PROVE  picks = {}
  BY DEF KeysAreOwned, PicksHold

\* claim_jobs chooses the oldest queued job of a key (order_by Job.id).
LEMMA ClaimReadIsOldest ==
  ASSUME TypeOK, ClaimRead
  PROVE  PlanIsOldest'
  <1> DEFINE candidates == {j \in Jobs : status[j] = "queued" /\ kind[j] = "genut"}
             eligible == FirstOfKey(candidates)
             picked   == {j \in eligible :
                            Cardinality({i \in eligible : i < j}) < Cardinality(IdleWorkers)}
  <1>1. PICK f \in [picked -> IdleWorkers] :
          plan' = {[job |-> j, worker |-> f[j], product |-> product[j]] : j \in picked}
    BY DEF ClaimRead
  <1>2. \A j \in picked : /\ j \in Jobs
                          /\ \A i \in candidates : i < j => Key(i) # Key(j)
    BY DEF FirstOfKey
  <1> HIDE DEF picked
  <1>3. \A r \in plan' : r.job \in picked /\ r.product = product[r.job]
    BY <1>1
  <1>4. UNCHANGED <<status, kind, product>>
    BY DEF ClaimRead, jobsTable
  <1> SUFFICES ASSUME NEW r \in plan', NEW i \in Jobs,
                      status[i] = "queued", ~IsPrep(i), Key(i) = KeyOf[r.product]
               PROVE  r.job <= i
    BY <1>4 DEF PlanIsOldest, IsPrep, Key
  <1>5. i \in candidates
    BY DEF TypeOK, JobsTableOK, Kinds, IsPrep
  <1>6. r.job \in Jobs /\ ~(i < r.job)
    BY <1>2, <1>3, <1>5 DEF Key
  <1>7. r.job \in Nat /\ i \in Nat
    BY <1>6, ConstantsAssumption
  <1> QED
    BY <1>6, <1>7

\* The jobs claim_jobs picks have keys that are not busy and differ in key.
LEMMA ClaimReadKeeps ==
  ASSUME TypeOK, KeysAreOwned, ClaimRead
  PROVE  KeysAreOwned'
  <1> DEFINE candidates == {j \in Jobs : status[j] = "queued" /\ kind[j] = "genut"}
             eligible == FirstOfKey(candidates)
             picked   == {j \in eligible :
                            Cardinality({i \in eligible : i < j}) < Cardinality(IdleWorkers)}
  <1>1. PICK f \in [picked -> IdleWorkers] :
          plan' = {[job |-> j, worker |-> f[j], product |-> product[j]] : j \in picked}
    BY DEF ClaimRead
  <1>2. loop' = "load" \/ picked = {}
    BY DEF ClaimRead
  <1>3. /\ \A j \in picked : /\ j \in candidates /\ Key(j) \notin BusyKeys
        /\ \A i, j \in picked : Key(i) = Key(j) => i = j
    BY ConstantsAssumption DEF FirstOfKey
  <1> HIDE DEF picked
  <1>4. /\ \A r \in plan' : /\ r.job \in picked
                            /\ r = [job |-> r.job, worker |-> f[r.job], product |-> product[r.job]]
        /\ picked = {} => plan' = {}
    BY <1>1
  <1>5. PlanHolds'
    <2>1. loop' \notin {"load", "assign"} => plan' = {}
      BY <1>2, <1>4
    <2>2. UNCHANGED <<status, kind, product, lock>>
      BY DEF ClaimRead, jobsTable
    <2>3. \A r \in plan' : /\ status'[r.job] # "none"
                           /\ product'[r.job] = r.product /\ ~IsPrep(r.job)'
                           /\ KeyOf[r.product] \notin BusyKeys'
      BY <1>3, <1>4, <2>2 DEF IsPrep, PrepKinds, Key, BusyKeys, Running
    <2>4. \A r, s \in plan' : KeyOf[r.product] = KeyOf[s.product] \/ r.job = s.job => r = s
      <3> SUFFICES ASSUME NEW r \in plan', NEW s \in plan',
                          KeyOf[r.product] = KeyOf[s.product] \/ r.job = s.job
                   PROVE  r = s
        OBVIOUS
      <3>1. r.product = product[r.job] /\ s.product = product[s.job]
        BY <1>4
      <3>2. r.job = s.job
        BY <1>3, <1>4, <3>1 DEF Key
      <3> QED BY <1>4, <3>2
    <2> QED
      BY <2>1, <2>3, <2>4 DEF PlanHolds
  <1>6. PicksHold' /\ PicksAreOldest'
    BY NoPicks DEF ClaimRead, PicksHold, PicksAreOldest
  <1> QED
    BY <1>5, <1>6, ClaimReadIsOldest
       DEF ClaimRead, jobsTable, KeysAreOwned, RunningHoldsLock, OneLockPerKey,
                PrepsExcludeLocks, OnePrepPerKey, Running, IsPrep, Key

\* The rows loaded are those chosen, with the same products.
LEMMA ClaimLoadKeeps ==
  ASSUME TypeOK, KeysAreOwned, ClaimLoad
  PROVE  KeysAreOwned'
  <1>1. plan' \subseteq plan
    <2>1. \A r \in plan : Row(r.job) => [r EXCEPT !.product = product[r.job]] = r
      BY DEF KeysAreOwned, PlanHolds, TypeOK, LoopOK, Assignment
    <2> QED
      BY <2>1 DEF ClaimLoad
  <1>2. /\ UNCHANGED <<status, kind, product, lock>>
        /\ loop' \notin {"load", "assign"} => plan' = {}
    BY DEF ClaimLoad, jobsTable
  <1>3. PlanHolds'
    BY <1>1, <1>2 DEF KeysAreOwned, PlanHolds, Row, IsPrep, BusyKeys, Running, Key
  <1>4. PlanIsOldest'
    BY <1>1, <1>2 DEF KeysAreOwned, PlanIsOldest, IsPrep, Key
  <1>5. PicksHold' /\ PicksAreOldest'
    BY NoPicks DEF ClaimLoad, PicksHold, PicksAreOldest
  <1> QED
    BY <1>2, <1>3, <1>4, <1>5 DEF KeysAreOwned, RunningHoldsLock, OneLockPerKey, PrepsExcludeLocks,
                      OnePrepPerKey, Running, IsPrep, Key

\* What a claim writes: the jobs of the assignments it keeps run and hold the locks
\* of their products, all else stays.
LEMMA ClaimWriteEffect ==
  ASSUME TypeOK, KeysAreOwned, ClaimWrite
  PROVE  /\ \A j \in Jobs : Running(j)' <=> Running(j) \/ \E r \in Kept : r.job = j
         /\ \A r \in Kept : lock'[r.product] = r.job
         /\ \A p \in Products : (\A r \in Kept : r.product # p) => lock'[p] = lock[p]
         /\ UNCHANGED <<kind, product>> /\ plan' = {}
  <1>1. /\ status' = [j \in Jobs |-> IF \E r \in Kept : r.job = j THEN "running" ELSE status[j]]
        /\ lock' = [p \in Products |-> IF \E r \in Kept : r.product = p
                                       THEN (CHOOSE r \in Kept : r.product = p).job ELSE lock[p]]
        /\ \A a, b \in Refused : a = b
        /\ UNCHANGED <<kind, product>> /\ plan' = {}
    BY DEF ClaimWrite
  <1>2. \A j \in Jobs : Running(j)' <=> Running(j) \/ \E r \in Kept : r.job = j
    BY <1>1 DEF Running
  <1>3. ASSUME NEW r \in Kept
        PROVE  lock'[r.product] = r.job
    <2>1. r \in plan /\ r.product \in Products
      BY <1>1, KeptIsPlanned DEF Assignment
    <2> DEFINE s == CHOOSE s \in Kept : s.product = r.product
    <2>2. s \in Kept /\ s.product = r.product
      OBVIOUS
    <2>3. s \in plan
      BY <1>1, <2>2, KeptIsPlanned
    <2>4. s = r
      BY <2>1, <2>2, <2>3 DEF KeysAreOwned, PlanHolds
    <2> QED
      BY <1>1, <2>1, <2>4
  <1>4. \A p \in Products : (\A r \in Kept : r.product # p) => lock'[p] = lock[p]
    BY <1>1
  <1> QED
    BY <1>1, <1>2, <1>3, <1>4

\* The writes of claim_jobs keep the keys owned.
LEMMA ClaimWriteKeeps ==
  ASSUME TypeOK, KeysAreOwned, ClaimWrite
  PROVE  KeysAreOwned'
  <1>1. \A r \in Kept : /\ r \in plan /\ r.job \in Jobs /\ r.product \in Products
                        /\ product[r.job] = r.product /\ ~IsPrep(r.job)
                        /\ KeyOf[r.product] \notin BusyKeys
    BY KeptIsPlanned DEF ClaimWrite, Assignment, KeysAreOwned, PlanHolds
  <1>2. \A p \in Products : lock[p] # None => KeyOf[p] \in BusyKeys
    BY DEF BusyKeys
  <1>3. \A j \in Jobs : Running(j) /\ IsPrep(j) => Key(j) \in BusyKeys
    BY DEF BusyKeys
  <1>4. \A p \in Products : \/ \E r \in Kept : r.product = p
                            \/ lock'[p] = lock[p]
    BY ClaimWriteEffect
  <1>5. \A j \in Jobs : Running(j)' => (\E r \in Kept : r.job = j) \/ Running(j)
    BY ClaimWriteEffect
  <1>6. UNCHANGED <<kind, product>>
    BY ClaimWriteEffect
  <1>7. RunningHoldsLock'
    <2> SUFFICES ASSUME NEW j \in Jobs, Running(j)', ~IsPrep(j)'
                 PROVE  lock'[product'[j]] = j
      BY DEF RunningHoldsLock
    <2>1. CASE \E r \in Kept : r.job = j
      BY <1>1, <1>6, <2>1, ClaimWriteEffect
    <2>2. CASE Running(j)
      <3>1. lock[product[j]] = j /\ product[j] \in Products
        BY <1>6, <2>2
           DEF KeysAreOwned, RunningHoldsLock, IsPrep, TypeOK, JobsTableOK, Row, Running, RowStatus
      <3>2. j # None
        BY ConstantsAssumption
      <3> QED
        BY <1>1, <1>2, <1>4, <1>6, <3>1, <3>2
    <2> QED BY <1>5, <2>1, <2>2
  <1>8. OneLockPerKey'
    <2> SUFFICES ASSUME NEW p \in Products, NEW q \in Products,
                        lock'[p] # None, lock'[q] # None, KeyOf[p] = KeyOf[q]
                 PROVE  p = q
      BY DEF OneLockPerKey
    <2>1. \A r, s \in Kept : KeyOf[r.product] = KeyOf[s.product] => r = s
      BY <1>1 DEF KeysAreOwned, PlanHolds
    <2>2. lock[p] # None /\ lock[q] # None => p = q
      BY DEF KeysAreOwned, OneLockPerKey
    <2> QED
      BY <1>1, <1>2, <1>4, <2>1, <2>2
  <1>9. PrepsExcludeLocks'
    <2> SUFFICES ASSUME NEW j \in Jobs, NEW p \in Products,
                        Running(j)', IsPrep(j)', lock'[p] # None
                 PROVE  KeyOf[p] # Key(j)'
      BY DEF PrepsExcludeLocks
    <2>1. Running(j) /\ IsPrep(j) /\ Key(j)' = Key(j)
      BY <1>1, <1>5, <1>6 DEF IsPrep, Key
    <2> QED
      BY <1>1, <1>3, <1>4, <2>1 DEF KeysAreOwned, PrepsExcludeLocks
  <1>10. OnePrepPerKey'
    BY <1>1, <1>5, <1>6 DEF KeysAreOwned, OnePrepPerKey, IsPrep, Key
  <1>11. PlanHolds' /\ PlanIsOldest'
    BY ClaimWriteEffect DEF PlanHolds, PlanIsOldest
  <1>12. PicksHold' /\ PicksAreOldest'
    BY NoPicks DEF ClaimWrite, PicksHold, PicksAreOldest
  <1> QED
    BY <1>7, <1>8, <1>9, <1>10, <1>11, <1>12 DEF KeysAreOwned

\* The jobs claim_prep_jobs picks have keys that are not busy and differ in key.
LEMMA ClaimPrepReadKeeps ==
  ASSUME TypeOK, KeysAreOwned, ClaimPrepRead
  PROVE  KeysAreOwned'
  <1> DEFINE candidates == {j \in Jobs : status[j] = "queued" /\ IsPrep(j)}
  <1>1. /\ UNCHANGED <<status, kind, product, lock, plan>> /\ loop = "auto"
        /\ picks' = FirstOfKey(candidates)
        /\ loop' # "assignPrep" => picks' = {}
    BY DEF ClaimPrepRead, jobsTable
  <1>2. /\ \A j \in picks' : /\ j \in Jobs /\ j \in candidates /\ Key(j) \notin BusyKeys
                           /\ \A i \in candidates : i < j => Key(i) # Key(j)
        /\ \A i, j \in picks' : Key(i) = Key(j) => i = j
    BY <1>1, ConstantsAssumption DEF FirstOfKey
  <1>3. PicksHold'
    BY <1>1, <1>2 DEF PicksHold, Row, IsPrep, Key, BusyKeys, Running
  <1>4. PicksAreOldest'
    <2> SUFFICES ASSUME NEW j \in picks', NEW i \in Jobs,
                        status[i] = "queued", IsPrep(i), Key(i) = Key(j)
                 PROVE  j <= i
      BY <1>1 DEF PicksAreOldest, Row, IsPrep, Key
    <2>1. j \in Jobs /\ ~(i < j)
      BY <1>2
    <2>2. j \in Nat /\ i \in Nat
      BY <2>1, ConstantsAssumption
    <2> QED
      BY <2>1, <2>2
  <1>5. plan' = {}
    BY <1>1 DEF KeysAreOwned, PlanHolds
  <1>6. PlanHolds' /\ PlanIsOldest'
    BY <1>5 DEF PlanHolds, PlanIsOldest
  <1> QED
    BY <1>1, <1>3, <1>4, <1>6
       DEF KeysAreOwned, RunningHoldsLock, OneLockPerKey, PrepsExcludeLocks, OnePrepPerKey,
           Running, IsPrep, Key

\* The writes of claim_prep_jobs keep the keys owned: what was chosen is a preparation
\* job, or a row that is gone, and then nothing is written.
LEMMA ClaimPrepWriteKeeps ==
  ASSUME TypeOK, KeysAreOwned, ClaimPrepWrite
  PROVE  KeysAreOwned'
  <1>1. /\ status' = [j \in Jobs |-> IF j \in picks THEN "running" ELSE status[j]]
        /\ UNCHANGED <<kind, product, lock, plan>> /\ loop = "assignPrep" /\ picks' = {}
        /\ \A j \in picks : Row(j)
    BY DEF ClaimPrepWrite
  <1>2. /\ \A j \in picks : j \in Jobs /\ IsPrep(j) /\ Key(j) \notin BusyKeys
        /\ \A i, j \in picks : Key(i) = Key(j) => i = j
    BY <1>1 DEF TypeOK, LoopOK, KeysAreOwned, PicksHold
  <1>3. \A j \in Jobs : /\ Running(j)' => Running(j) \/ j \in picks
                        /\ IsPrep(j)' <=> IsPrep(j)
                        /\ Key(j)' = Key(j)
    BY <1>1 DEF Running, IsPrep, Key
  <1>4. RunningHoldsLock'
    BY <1>1, <1>2, <1>3 DEF KeysAreOwned, RunningHoldsLock
  <1>5. OneLockPerKey'
    BY <1>1 DEF KeysAreOwned, OneLockPerKey
  <1>6. PrepsExcludeLocks'
    BY <1>1, <1>2, <1>3 DEF KeysAreOwned, PrepsExcludeLocks, BusyKeys
  <1>7. OnePrepPerKey'
    BY <1>2, <1>3 DEF KeysAreOwned, OnePrepPerKey, BusyKeys
  <1>8. PlanHolds' /\ PlanIsOldest' /\ PicksHold' /\ PicksAreOldest'
    BY <1>1 DEF KeysAreOwned, PlanHolds, PlanIsOldest, PicksHold, PicksAreOldest
  <1> QED
    BY <1>4, <1>5, <1>6, <1>7, <1>8 DEF KeysAreOwned

-----------------------------------------------------------------------------
(* Exclusion *)

\* No job exists at first.
LEMMA InitKeepsKeys == Init => KeysAreOwned
  BY DEF Init, KeysAreOwned, RunningHoldsLock, OneLockPerKey, PrepsExcludeLocks,
         OnePrepPerKey, PlanHolds, PlanIsOldest, PicksHold, PicksAreOldest, Running

\* A step starts nothing, or it is one of the claims.
LEMMA StepKinds ==
  ASSUME ~ReuseIds, TypeOK, [Next]_vars
  PROVE  \/ NothingStarts \/ ClaimRead \/ ClaimLoad \/ ClaimWrite
         \/ ClaimPrepRead \/ ClaimPrepWrite
  <1>1. CASE UNCHANGED vars
    BY <1>1, UnchangedStartsNothing DEF vars, NothingStarts
  <1>2. CASE Next
    BY <1>2, ThreadStartsNothing, LoopStartsNothing, ClientStartsNothing,
       EnvironmentStartsNothing
       DEF Next, LoopStep
  <1> QED BY <1>1, <1>2

\* The invariant is inductive.
LEMMA NextKeepsKeys ==
  ASSUME ~ReuseIds, TypeOK, TypeOK', KeysAreOwned, [Next]_vars
  PROVE  KeysAreOwned'
  BY StepKinds, NothingStartsKeeps, ClaimReadKeeps, ClaimLoadKeeps, ClaimWriteKeeps,
     ClaimPrepReadKeeps, ClaimPrepWriteKeeps

\* Locks exclude GENUT jobs of one key from each other and from preparation jobs.
LEMMA OwnedKeysExclude ==
  ASSUME TypeOK, KeysAreOwned
  PROVE  OneRunningPerKey
  <1> SUFFICES ASSUME NEW i \in Jobs, NEW j \in Jobs, Running(i), Running(j), Key(i) = Key(j)
               PROVE  i = j
    BY DEF OneRunningPerKey
  <1>1. product[i] \in Products /\ product[j] \in Products
    BY DEF TypeOK, JobsTableOK, Row, Running, RowStatus
  <1>2. i # None /\ j # None
    BY ConstantsAssumption
  <1>3. /\ ~IsPrep(i) => lock[product[i]] = i
        /\ ~IsPrep(j) => lock[product[j]] = j
    BY DEF KeysAreOwned, RunningHoldsLock
  <1>4. CASE ~IsPrep(i) /\ ~IsPrep(j)
    <2>1. product[i] = product[j]
      BY <1>1, <1>2, <1>3, <1>4 DEF KeysAreOwned, OneLockPerKey, Key
    <2> QED BY <1>3, <1>4, <2>1
  <1>5. ASSUME NEW g \in {i, j}, NEW h \in {i, j}, ~IsPrep(g), IsPrep(h)
        PROVE  FALSE
    BY <1>1, <1>2, <1>3, <1>5 DEF KeysAreOwned, PrepsExcludeLocks, Key
  <1>6. CASE IsPrep(i) /\ IsPrep(j)
    BY <1>6 DEF KeysAreOwned, OnePrepPerKey
  <1> QED
    BY <1>4, <1>5, <1>6

\* The locks and the running preparation jobs divide the keys among the running jobs,
\* and what a claim has read is still so when it writes (claim_jobs, claim_prep_jobs,
\* release_lock), provided job ids are not used twice.
THEOREM KeysOwned ==
  ASSUME ~ReuseIds
  PROVE  Spec => []KeysAreOwned
  <1>1. Init => KeysAreOwned
    BY InitKeepsKeys
  <1>2. TypeOK /\ TypeOK' /\ KeysAreOwned /\ [Next]_vars => KeysAreOwned'
    BY NextKeepsKeys
  <1> QED
    BY <1>1, <1>2, TypeCorrect, PTL DEF Spec

\* A running GENUT job holds the lock of its product, whatever threads, clients,
\* sweeps and restarts do and however they interleave, provided job ids are not
\* used twice.
THEOREM LocksHeld ==
  ASSUME ~ReuseIds
  PROVE  Spec => []RunningHoldsLock
  <1>1. KeysAreOwned => RunningHoldsLock
    BY DEF KeysAreOwned
  <1> QED
    BY <1>1, KeysOwned, PTL

\* At most one job, GENUT or preparation, runs per (project, name).
THEOREM Exclusion ==
  ASSUME ~ReuseIds
  PROVE  Spec => []OneRunningPerKey
  <1>1. TypeOK /\ KeysAreOwned => OneRunningPerKey
    BY OwnedKeysExclude
  <1> QED
    BY <1>1, KeysOwned, TypeCorrect, PTL

-----------------------------------------------------------------------------
(* Refinement *)

\* The only running job of a key is its holder.
LEMMA HolderIsRunning ==
  ASSUME OneRunningPerKey, NEW k \in Keys
  PROVE  /\ \A j \in RunningFor(k) : keyHolder[k] = j
         /\ RunningFor(k) = {} => keyHolder[k] = None
         /\ keyHolder[k] # None => keyHolder[k] \in RunningFor(k)
  <1>1. \A i, j \in RunningFor(k) : i = j
    BY DEF OneRunningPerKey, RunningFor
  <1> QED
    BY <1>1 DEF keyHolder

\* No job holds two keys.
LEMMA HoldersDiffer ==
  ASSUME OneRunningPerKey, NEW k \in Keys, NEW l \in Keys,
         keyHolder[k] = keyHolder[l], keyHolder[k] # None
  PROVE  k = l
  <1>1. keyHolder[k] \in RunningFor(k) /\ keyHolder[k] \in RunningFor(l)
    BY HolderIsRunning
  <1> QED
    BY <1>1 DEF RunningFor

\* A step that starts nothing frees keys.
LEMMA NothingStartsLeaves ==
  ASSUME OneRunningPerKey, OneRunningPerKey', NothingStarts
  PROVE  Abstract!Leave
  <1> DEFINE S == {k \in Keys : RunningFor(k)' = {}}
  <1>1. \A k \in Keys : keyHolder'[k] = IF k \in S THEN None ELSE keyHolder[k]
    <2> SUFFICES ASSUME NEW k \in Keys
                 PROVE  keyHolder'[k] = IF k \in S THEN None ELSE keyHolder[k]
      OBVIOUS
    <2>1. CASE RunningFor(k)' = {}
      BY <2>1 DEF keyHolder
    <2>2. CASE RunningFor(k)' # {}
      <3>1. PICK j : j \in RunningFor(k)'
        BY <2>2
      <3>2. j \in RunningFor(k)
        BY <3>1, RunningIsKept DEF RunningFor, Key, NothingStarts
      <3>3. keyHolder[k] = j
        BY <3>2, HolderIsRunning
      <3>4. \A i \in RunningFor(k)' : i = j
        BY <3>1 DEF OneRunningPerKey, RunningFor
      <3>5. keyHolder'[k] = j
        BY <3>1, <3>4 DEF keyHolder
      <3> QED BY <2>2, <3>3, <3>5
    <2> QED BY <2>1, <2>2
  <1>2. keyHolder' = [k \in Keys |-> IF k \in S THEN None ELSE keyHolder[k]]
    <2>1. keyHolder' = [k \in Keys |-> keyHolder'[k]]
      BY DEF keyHolder
    <2> HIDE DEF S
    <2> QED BY <1>1, <2>1
  <1>3. S \in SUBSET Keys
    OBVIOUS
  <1> HIDE DEF S
  <1> QED
    BY <1>2, <1>3 DEF Abstract!Leave

\* A step by which jobs only start takes keys that are free.
LEMMA StartsTake ==
  ASSUME OneRunningPerKey, OneRunningPerKey', UNCHANGED product,
         \A j \in Jobs : Running(j) => Running(j)'
  PROVE  Abstract!Take
  <1>1. \A k \in Keys : RunningFor(k) \subseteq RunningFor(k)'
    BY DEF RunningFor, Key
  <1>2. \A k \in Keys : /\ \A j \in RunningFor(k)' : keyHolder'[k] = j
                        /\ keyHolder'[k] # None => keyHolder'[k] \in RunningFor(k)'
    <2> SUFFICES ASSUME NEW k \in Keys
                 PROVE  /\ \A j \in RunningFor(k)' : keyHolder'[k] = j
                        /\ keyHolder'[k] # None => keyHolder'[k] \in RunningFor(k)'
      OBVIOUS
    <2>1. \A i, j \in RunningFor(k)' : i = j
      BY DEF OneRunningPerKey, RunningFor
    <2> QED
      BY <2>1 DEF keyHolder
  <1>3. keyHolder' \in [Keys -> Jobs \cup {None}]
    <2>1. \A k \in Keys : keyHolder'[k] \in Jobs \cup {None}
      BY <1>2 DEF RunningFor
    <2> QED
      BY <2>1 DEF keyHolder
  <1>4. \A k \in Keys : keyHolder[k] # None => keyHolder'[k] = keyHolder[k]
    BY <1>1, <1>2, HolderIsRunning
  <1>5. \A k, l \in Keys : keyHolder'[k] = keyHolder'[l] /\ keyHolder'[k] # None => k = l
    BY <1>2 DEF RunningFor
  <1> QED
    BY <1>3, <1>4, <1>5 DEF Abstract!Take

\* Every step of the scheduler is a step of ExclusiveKeys or a stutter.
LEMMA StepImplements ==
  ASSUME ~ReuseIds, TypeOK, OneRunningPerKey, OneRunningPerKey', KeysAreOwned, [Next]_vars
  PROVE  [Abstract!Next]_keyHolder
  <1>1. CASE NothingStarts
    BY <1>1, NothingStartsLeaves DEF Abstract!Next
  <1>2. CASE ClaimRead \/ ClaimLoad \/ ClaimPrepRead
    <2>1. UNCHANGED <<status, product>>
      BY <1>2 DEF ClaimRead, ClaimLoad, ClaimPrepRead, jobsTable
    <2> QED BY <2>1 DEF keyHolder, RunningFor, Running, Key
  <1>3. CASE ClaimWrite
    <2>1. UNCHANGED product /\ \A j \in Jobs : Running(j) => Running(j)'
      BY <1>3, ClaimWriteEffect
    <2> QED BY <2>1, StartsTake DEF Abstract!Next
  <1>4. CASE ClaimPrepWrite
    <2>1. UNCHANGED product /\ \A j \in Jobs : Running(j) => Running(j)'
      BY <1>4 DEF ClaimPrepWrite, Running
    <2> QED BY <2>1, StartsTake DEF Abstract!Next
  <1> QED
    BY <1>1, <1>2, <1>3, <1>4, StepKinds

\* The scheduler implements ExclusiveKeys: a key is held by the one job running
\* for it and is free before another job gets it (claim_jobs, claim_prep_jobs).
THEOREM Refinement ==
  ASSUME ~ReuseIds
  PROVE  Spec => ImplementsExclusiveKeys
  <1>1. Init => Abstract!Init
    BY DEF Init, Abstract!Init, keyHolder, RunningFor, Running
  <1>2. TypeOK /\ TypeOK' /\ KeysAreOwned /\ KeysAreOwned' /\ [Next]_vars
          => [Abstract!Next]_keyHolder
    <2>1. TypeOK' /\ KeysAreOwned' => OneRunningPerKey'
      BY OwnedKeysExclude, PTL
    <2> QED
      BY <2>1, OwnedKeysExclude, StepImplements
  <1> QED
    BY <1>1, <1>2, KeysOwned, TypeCorrect, PTL
       DEF Spec, ImplementsExclusiveKeys, Abstract!Spec

-----------------------------------------------------------------------------
(* The order jobs start in *)

\* No step starts a job before an older one of its key and class that is queued.
StartsOldest ==
  \A i, j \in Jobs :
    /\ status[j] = "queued" /\ status'[j] = "running"
    /\ status[i] = "queued" /\ Key(i) = Key(j) /\ IsPrep(i) = IsPrep(j)
    => i >= j

LEMMA NextStartsOldest ==
  ASSUME ~ReuseIds, TypeOK, KeysAreOwned, [Next]_vars
  PROVE  StartsOldest
  <1> SUFFICES ASSUME NEW i \in Jobs, NEW j \in Jobs,
                      status[j] = "queued", status'[j] = "running",
                      status[i] = "queued", Key(i) = Key(j), IsPrep(i) = IsPrep(j)
               PROVE  i >= j
    BY DEF StartsOldest
  <1>1. CASE NothingStarts
    BY <1>1 DEF NothingStarts, NoJobStarts, Running
  <1>2. CASE ClaimRead \/ ClaimLoad \/ ClaimPrepRead
    BY <1>2 DEF ClaimRead, ClaimLoad, ClaimPrepRead, jobsTable
  <1>3. CASE ClaimWrite
    <2>1. PICK r \in Kept : r.job = j
      BY <1>3, ClaimWriteEffect DEF Running
    <2>2. r \in plan /\ Row(j)
      BY <1>3, <2>1, KeptIsPlanned DEF ClaimWrite
    <2>3. ~IsPrep(j) /\ Key(j) = KeyOf[r.product]
      BY <2>1, <2>2 DEF KeysAreOwned, PlanHolds, Key
    <2>4. j <= i
      BY <2>1, <2>2, <2>3 DEF KeysAreOwned, PlanIsOldest
    <2> QED
      BY <2>4, ConstantsAssumption
  <1>4. CASE ClaimPrepWrite
    <2>1. j \in picks /\ Row(j)
      BY <1>4 DEF ClaimPrepWrite
    <2>2. IsPrep(j) /\ j <= i
      BY <2>1 DEF KeysAreOwned, PicksHold, PicksAreOldest
    <2> QED
      BY <2>2, ConstantsAssumption
  <1> QED
    BY <1>1, <1>2, <1>3, <1>4, StepKinds

\* Within a key, GENUT jobs start in the order they were queued in, and so do
\* preparation jobs: a scan never overtakes the diff queued before it (the ORDER BY of
\* claim_jobs and claim_prep_jobs, with two transactions in which others queue, cancel
\* and delete between a choice and its write).
THEOREM OldestFirst ==
  ASSUME ~ReuseIds
  PROVE  Spec => StartsInOrder
  <1>1. TypeOK /\ KeysAreOwned /\ [Next]_vars => StartsOldest
    BY NextStartsOldest
  <1> QED
    BY <1>1, KeysOwned, TypeCorrect, PTL DEF Spec, StartsInOrder, StartsOldest

-----------------------------------------------------------------------------
(* Steps that wind jobs up.  Every step but the claims is one.               *)

\* A row keeps its worker while it exists, and exists while it owns a lock.
RowsWind ==
  \A j \in Jobs : /\ genut'[j] \in {genut[j], None}
                  /\ Row(j)' => genut'[j] = genut[j]
                  /\ Row(j) /\ ~Row(j)' => \A p \in Products : lock[p] # j

\* No worker is given a job.
WorkersWind ==
  \A w \in Workers : workerStatus'[w] # "idle" =>
                       workerStatus'[w] = workerStatus[w] /\ current'[w] = current[w]

\* No thread changes its job, and a session is the one there was or a new one.
ThreadsWind ==
  \A t \in Threads :
    /\ thread'[t].pc # "idle" =>
         /\ thread[t].pc # "idle"
         /\ thread'[t].job = thread[t].job /\ thread'[t].role = thread[t].role
    /\ HasLoaded(t)' /\ thread[t].role = "job" =>
         \/ HasLoaded(t) /\ thread'[t].seen = thread[t].seen
         \/ /\ Row(thread[t].job) /\ genut[thread[t].job] # None
            /\ thread'[t].seen = Fresh(thread[t].job)

WindsUp == NothingStarts /\ RowsWind /\ WorkersWind /\ ThreadsWind /\ toRun' \subseteq toRun

\* A job that ends takes its lock and its worker along.
EndsLeaveNothing ==
  \A j \in Jobs : Running(j) /\ ~Running(j)' =>
    /\ \A p \in Products : lock'[p] # j
    /\ \A w \in Workers : ~Serves(w, j)'

\* A step that winds up keeps the rows pointing to each other.
LEMMA WindsUpKeeps ==
  ASSUME TypeOK, TypeOK', KeysAreOwned, JobsLeaveNothing, WindsUp
  PROVE  JobsLeaveNothing'
  <1> USE DEF WindsUp, NothingStarts
  <1>0. \A j \in Jobs : Row(j)' /\ status[j] # "none" =>
          /\ Row(j) /\ product'[j] = product[j] /\ kind'[j] = kind[j] /\ genut'[j] = genut[j]
          /\ (IsPrep(j)' <=> IsPrep(j))
    BY DEF NoJobStarts, RowsWind, IsPrep
  <1>1. LocksAreOwned'
    <2> SUFFICES ASSUME NEW p \in Products, lock'[p] # None
                 PROVE  /\ Row(lock[p])' /\ ~IsPrep(lock[p])'
                        /\ product'[lock'[p]] = p /\ genut'[lock'[p]] # None
      BY DEF LocksAreOwned
    <2>1. lock'[p] = lock[p] /\ lock[p] \in Jobs
      BY DEF NoLockIsTaken, TypeOK, LockTableOK
    <2>2. Row(lock[p]) /\ ~IsPrep(lock[p]) /\ product[lock[p]] = p /\ genut[lock[p]] # None
      BY <2>1 DEF JobsLeaveNothing, LocksAreOwned
    <2>3. status'[lock[p]] \in RowStatus
      BY <2>1, <2>2 DEF RowsWind, Row
    <2>4. status[lock[p]] # "none"
      BY <2>2 DEF Row, RowStatus, Terminal
    <2> QED
      BY <1>0, <2>1, <2>2, <2>3, <2>4 DEF Row, IsPrep
  <1>2. \A w \in Workers, j \in Jobs : Serves(w, j)' => Serves(w, j)
    BY DEF WorkersWind, Serves
  <1>3. WorkersAreOwned'
    <2> SUFFICES ASSUME NEW w \in Workers, NEW j \in Jobs, Serves(w, j)'
                 PROVE  status'[j] # "none" /\ (Row(j)' => genut'[j] = w)
      BY DEF WorkersAreOwned
    <2>1. status[j] # "none" /\ (Row(j) => genut[j] = w)
      BY <1>2 DEF JobsLeaveNothing, WorkersAreOwned
    <2> QED
      BY <1>0, <2>1 DEF NoJobStarts
  <1>4. NoneAssigned'
    <2> SUFFICES ASSUME NEW j \in Jobs, status'[j] \in {"none", "queued"} \/ (Row(j)' /\ IsPrep(j)')
                 PROVE  genut'[j] = None
      BY DEF NoneAssigned
    <2>1. genut'[j] \in {genut[j], None}
      BY DEF RowsWind
    <2>2. CASE status[j] = "none"
      BY <2>1, <2>2 DEF JobsLeaveNothing, NoneAssigned
    <2>3. CASE status[j] # "none"
      <3>1. status[j] = "queued" \/ (Row(j) /\ IsPrep(j))
        <4>1. CASE status'[j] = "none"
          BY <2>3, <4>1 DEF NoJobStarts
        <4>2. CASE status'[j] = "queued"
          <5>1. status[j] = "queued" \/ Latest(j)
            BY <4>2 DEF NoJobStarts
          <5>2. ~Latest(j)
            BY <2>3, ConstantsAssumption DEF Latest
          <5> QED BY <5>1, <5>2
        <4>3. CASE Row(j)' /\ IsPrep(j)'
          BY <1>0, <2>3, <4>3
        <4> QED BY <4>1, <4>2, <4>3
      <3> QED
        BY <2>1, <3>1 DEF JobsLeaveNothing, NoneAssigned
    <2> QED BY <2>2, <2>3
  <1>5. PlanAssignsOnce'
    <2>1. plan' \subseteq plan
      BY DEF PlanIsKept
    <2>2. \A r \in plan : r.job \in Jobs /\ r.worker \in Workers
      BY DEF TypeOK, LoopOK, Assignment
    <2>3. \A w \in Workers : workerStatus[w] = "idle" => workerStatus'[w] = "idle"
      BY DEF WorkersWind
    <2> QED
      BY <2>1, <2>2, <2>3 DEF JobsLeaveNothing, PlanAssignsOnce, RowsWind
  <1>6. RolesFit'
    <2>1. \A t \in Threads : thread[t].pc # "idle" => thread[t].job \in Jobs
      BY DEF TypeOK, ThreadsOK
    <2>2. \A k \in toRun : k.job \in Jobs
      BY DEF TypeOK, LoopOK, Task
    <2>3. \A j \in Jobs : status[j] # "none" => status'[j] # "none"
      BY DEF NoJobStarts
    <2>4. ASSUME NEW t \in Threads, thread'[t].pc # "idle"
          PROVE  /\ status'[thread'[t].job] # "none"
                 /\ Row(thread[t].job)' => (thread'[t].role = "prep" <=> IsPrep(thread[t].job)')
      <3>1. /\ thread[t].pc # "idle" /\ thread[t].job \in Jobs
            /\ thread'[t].job = thread[t].job /\ thread'[t].role = thread[t].role
        BY <2>1, <2>4 DEF ThreadsWind
      <3>2. /\ status[thread[t].job] # "none"
            /\ Row(thread[t].job) => (thread[t].role = "prep" <=> IsPrep(thread[t].job))
        BY <3>1 DEF JobsLeaveNothing, RolesFit
      <3> QED
        BY <1>0, <2>3, <3>1, <3>2
    <2>5. ASSUME NEW k \in toRun'
          PROVE  /\ status'[k.job] # "none"
                 /\ Row(k.job)' => (k.role = "prep" <=> IsPrep(k.job)')
      <3>1. /\ k.job \in Jobs /\ status[k.job] # "none"
            /\ Row(k.job) => (k.role = "prep" <=> IsPrep(k.job))
        BY <2>2 DEF JobsLeaveNothing, RolesFit
      <3> QED
        BY <1>0, <2>3, <3>1
    <2> QED
      BY <2>4, <2>5 DEF RolesFit
  <1>7. SessionsFit'
    <2> SUFFICES ASSUME NEW t \in Threads,
                        HasLoaded(t)', thread'[t].role = "job", Row(thread[t].job)'
                 PROVE  /\ genut'[thread'[t].job] # None
                        /\ thread'[t].seen.product = product'[thread'[t].job]
                        /\ thread'[t].seen.genut = genut'[thread'[t].job]
                        /\ Running(thread[t].job)' =>
                             \A w \in Workers : Serves(w, thread[t].job)' =>
                               thread'[t].seen.current = thread'[t].job
      BY DEF SessionsFit
    <2> DEFINE j == thread[t].job
    <2>1. /\ thread[t].pc # "idle" /\ j \in Jobs
          /\ thread'[t].job = j /\ thread[t].role = "job"
      BY DEF ThreadsWind, HasLoaded, TypeOK, ThreadsOK
    <2>2. status[j] # "none"
      BY <2>1 DEF JobsLeaveNothing, RolesFit
    <2>3. Row(j) /\ product'[j] = product[j] /\ genut'[j] = genut[j]
      BY <1>0, <2>1, <2>2
    <2>4. Running(j)' => Running(j)
      BY <2>1 DEF NoJobStarts
    <2>5. CASE HasLoaded(t) /\ thread'[t].seen = thread[t].seen
      BY <1>2, <2>1, <2>3, <2>4, <2>5 DEF JobsLeaveNothing, SessionsFit
    <2>6. CASE genut[j] # None /\ thread'[t].seen = Fresh(j)
      <3>1. \A w \in Workers : Serves(w, j) => genut[j] = w /\ current[w] = j
        BY <2>1, <2>3 DEF JobsLeaveNothing, WorkersAreOwned, Serves
      <3> QED
        BY <1>2, <2>1, <2>3, <2>6, <3>1 DEF Fresh
    <2> QED
      BY <2>1, <2>5, <2>6 DEF ThreadsWind
  <1> QED
    BY <1>1, <1>3, <1>4, <1>5, <1>6, <1>7 DEF JobsLeaveNothing

-----------------------------------------------------------------------------
(* The operators that wind up *)

\* Where nothing changes nothing is left.
LEMMA UnchangedWindsUp ==
  /\ UNCHANGED <<status, genut>> => RowsWind
  /\ UNCHANGED status => EndsLeaveNothing
  /\ UNCHANGED jobsTable => RowsWind /\ EndsLeaveNothing
  /\ UNCHANGED workersTable => WorkersWind
  /\ UNCHANGED thread => ThreadsWind
  /\ UNCHANGED toRun => toRun' \subseteq toRun
  BY DEF RowsWind, EndsLeaveNothing, WorkersWind, ThreadsWind, jobsTable, workersTable,
         Row, Running, HasLoaded

\* A thread that keeps its job and its session, or gives its slot back.
LEMMA SetThreadWinds ==
  ASSUME TypeOK, NEW t \in Threads, NEW th, SetThread(t, th), thread[t].pc # "idle",
         th.pc # "idle" => /\ th.job = thread[t].job /\ th.role = thread[t].role
                           /\ \/ HasLoaded(t) /\ th.seen = thread[t].seen
                              \/ th.role # "job"
                              \/ /\ Row(thread[t].job) /\ genut[thread[t].job] # None
                                 /\ th.seen = Fresh(thread[t].job)
  PROVE  ThreadsWind
  <1>1. thread' = [thread EXCEPT ![t] = th] /\ thread \in [Threads -> Thread]
    BY DEF SetThread, TypeOK, ThreadsOK
  <1> QED
    BY <1>1 DEF ThreadsWind, HasLoaded

\* Neither release takes a lock or gives a worker a job.
LEMMA ReleaseWinds ==
  ASSUME TypeOK, NEW t \in Threads, Release(t), thread[t].pc # "idle"
  PROVE  ThreadsWind
  <1>1. IdleThread.pc = "idle"
    BY DEF IdleThread
  <1> QED
    BY <1>1, SetThreadWinds DEF Release

\* Inserting rows changes none there is.
LEMMA InsertWinds ==
  ASSUME TypeOK, NEW i \in Jobs, NEW k, NEW p, InsertJob(i, k, p)
  PROVE  RowsWind /\ EndsLeaveNothing
  <1>1. status[i] = "none"
    BY NextIdIsLatest DEF InsertJob
  <1> QED
    BY <1>1 DEF InsertJob, TypeOK, JobsTableOK, RowsWind, EndsLeaveNothing, Row, RowStatus,
                Running

\* An automatic cycle only adds rows.
LEMMA CycleWinds ==
  ASSUME TypeOK, NEW p, InsertCycle(p)
  PROVE  RowsWind /\ EndsLeaveNothing
  <1>1. PICK i \in Jobs, k \in Jobs :
          /\ NextId(i) /\ k = i + 1
          /\ status' = [status EXCEPT ![i] = "queued", ![k] = "queued"]
          /\ UNCHANGED genut
    BY DEF InsertCycle
  <1>2. status[i] = "none" /\ status[k] = "none"
    BY <1>1, ConstantsAssumption DEF NextId
  <1> QED
    BY <1>1, <1>2 DEF TypeOK, JobsTableOK, RowsWind, EndsLeaveNothing, Row, RowStatus,
                Running

\* Rows are deleted only when their jobs are over and own no lock.
LEMMA DeleteWinds ==
  ASSUME ~ReuseIds, TypeOK, NEW S \in SUBSET Jobs, \A j \in S : Deletable(j), DeleteRows(S)
  PROVE  RowsWind /\ EndsLeaveNothing
  <1>1. /\ status' = [j \in Jobs |-> IF j \in S THEN "deleted" ELSE status[j]]
        /\ genut'  = [j \in Jobs |-> IF j \in S THEN None ELSE genut[j]]
    BY DEF DeleteRows
  <1>2. \A j \in S : ~Running(j) /\ \A p \in Products : lock[p] # j
    BY DEF Deletable, Running, Terminal
  <1> QED
    BY <1>1, <1>2 DEF TypeOK, JobsTableOK, RowsWind, EndsLeaveNothing, Row, RowStatus, Terminal,
                Running

\* finish_job gives no worker a job.
LEMMA FinishJobWinds ==
  ASSUME TypeOK, NEW j \in Jobs, NEW v, NEW result \in Terminal, FinishJob(j, v, result)
  PROVE  RowsWind /\ WorkersWind
  <1>1. CASE v.status \in Terminal \/ ~Row(j)
    BY <1>1, UnchangedWindsUp DEF FinishJob
  <1>2. CASE ~(v.status \in Terminal \/ ~Row(j))
    <2>1. RowsWind
      BY <1>2 DEF FinishJob, TypeOK, JobsTableOK, RowsWind, Row, RowStatus
    <2>2. WorkersWind
      BY <1>2 DEF FinishJob, TypeOK, WorkersTableOK, WorkersWind
    <2> QED BY <2>1, <2>2
  <1> QED BY <1>1, <1>2

\* What a session must know of the job it ends: its product, its worker, and that this
\* worker serves it.
Knows(v, j) ==
  Row(j) /\ Running(j) =>
    /\ v.product = product[j] /\ v.genut = genut[j]
    /\ \A w \in Workers : Serves(w, j) => v.current = j

\* Then finish_job leaves nothing of the job behind.
LEMMA FinishJobLeavesNothing ==
  ASSUME TypeOK, JobsLeaveNothing, NEW j \in Jobs, NEW v, Knows(v, j),
         NEW result \in Terminal, FinishJob(j, v, result)
  PROVE  EndsLeaveNothing
  <1> SUFFICES ASSUME NEW i \in Jobs, Running(i), ~Running(i)'
               PROVE  /\ \A p \in Products : lock'[p] # i
                      /\ \A w \in Workers : ~Serves(w, i)'
    BY DEF EndsLeaveNothing
  <1>1. ~(v.status \in Terminal \/ ~Row(j))
    BY DEF FinishJob, jobsTable, Running
  <1>2. /\ status' = [status EXCEPT ![j] = result]
        /\ lock'   = [lock EXCEPT ![v.product] = IF @ = j THEN None ELSE @]
        /\ IF v.genut # None /\ v.current = j
           THEN /\ workerStatus' = [workerStatus EXCEPT ![v.genut] = "idle"]
                /\ current'      = [current EXCEPT ![v.genut] = None]
           ELSE UNCHANGED <<workerStatus, current>>
    BY <1>1 DEF FinishJob
  <1>3. i = j
    BY <1>2 DEF Running, TypeOK, JobsTableOK
  <1>4. v.product = product[j] /\ v.genut = genut[j]
    BY <1>1, <1>3 DEF Knows
  <1>5. ASSUME NEW p \in Products, lock'[p] = j
        PROVE  FALSE
    <2>1. lock[p] = j /\ j # None
      BY <1>2, <1>5, ConstantsAssumption DEF TypeOK, LockTableOK
    <2>2. product[j] = p
      BY <2>1 DEF JobsLeaveNothing, LocksAreOwned
    <2> QED
      BY <1>2, <1>4, <1>5, <2>1, <2>2 DEF TypeOK, LockTableOK
  <1>6. ASSUME NEW w \in Workers, Serves(w, j)'
        PROVE  FALSE
    <2>1. Serves(w, j)
      BY <1>2, <1>6 DEF Serves, TypeOK, WorkersTableOK
    <2>2. genut[j] = w /\ v.current = j
      BY <1>1, <1>3, <2>1 DEF JobsLeaveNothing, WorkersAreOwned, Knows
    <2>3. w # None
      BY ConstantsAssumption
    <2> QED
      BY <1>2, <1>4, <1>6, <2>2, <2>3 DEF Serves, TypeOK, WorkersTableOK
  <1> QED
    BY <1>3, <1>5, <1>6

\* The rows a session loads now are enough.
LEMMA FreshKnows ==
  ASSUME TypeOK, JobsLeaveNothing, NEW j \in Jobs
  PROVE  Knows(Fresh(j), j) /\ Knows([Fresh(j) EXCEPT !.status = "running"], j)
  <1>1. \A w \in Workers : Serves(w, j) /\ Row(j) => genut[j] = w /\ current[w] = j /\ w # None
    BY ConstantsAssumption DEF JobsLeaveNothing, WorkersAreOwned, Serves
  <1> QED
    BY <1>1 DEF Knows, Fresh

\* A preparation job has neither lock nor worker to leave behind.
LEMMA FinishPrepLeavesNothing ==
  ASSUME TypeOK, JobsLeaveNothing, NEW j \in Jobs, Row(j) => IsPrep(j),
         NEW result \in Terminal, FinishPrep(j, result)
  PROVE  RowsWind /\ WorkersWind /\ EndsLeaveNothing
  <1>1. /\ Row(j) => status' = [status EXCEPT ![j] = result]
        /\ ~Row(j) => UNCHANGED status
        /\ UNCHANGED <<genut, lock, workersTable>>
    BY DEF FinishPrep
  <1>2. RowsWind /\ WorkersWind
    BY <1>1, UnchangedWindsUp DEF RowsWind, Row, RowStatus, TypeOK, JobsTableOK
  <1>3. j # None /\ None \notin Workers
    BY ConstantsAssumption
  <1>4. Row(j) => /\ \A p \in Products : lock[p] # j
                  /\ \A w \in Workers : ~Serves(w, j)
    BY <1>3 DEF JobsLeaveNothing, LocksAreOwned, WorkersAreOwned, NoneAssigned
  <1>5. EndsLeaveNothing
    BY <1>1, <1>4 DEF EndsLeaveNothing, Running, Serves, workersTable, TypeOK, JobsTableOK
  <1> QED BY <1>2, <1>5

\* The end of a thread, as the one or the other.
LEMMA EndWithLeavesNothing ==
  ASSUME TypeOK, JobsLeaveNothing, NEW t \in Threads, thread[t].pc # "idle",
         NEW v, thread[t].role = "job" => Knows(v, thread[t].job),
         NEW result \in Terminal, EndWith(t, v, result)
  PROVE  RowsWind /\ WorkersWind /\ EndsLeaveNothing
  <1>1. thread[t].job \in Jobs /\ thread[t].role \in {"job", "prep"}
    BY DEF TypeOK, ThreadsOK, Thread
  <1>2. CASE thread[t].role = "job"
    BY <1>1, <1>2, FinishJobWinds, FinishJobLeavesNothing DEF EndWith
  <1>3. CASE thread[t].role = "prep"
    <2>1. Row(thread[t].job) => IsPrep(thread[t].job)
      BY <1>3 DEF JobsLeaveNothing, RolesFit
    <2> QED
      BY <1>1, <1>3, <2>1, FinishPrepLeavesNothing DEF EndWith
  <1> QED BY <1>1, <1>2, <1>3

\* release_stale_locks leaves locks and workers to jobs that are live only.
LEMMA ReleaseStaleLeavesNothing ==
  ASSUME TypeOK, NEW st, ReleaseStale(st)
  PROVE  /\ WorkersWind
         /\ \A p \in Products : lock'[p] # None => st[lock'[p]] \in {"queued", "running"}
         /\ \A w \in Workers : workerStatus'[w] = "busy" =>
              current'[w] # None /\ st[current'[w]] \in {"queued", "running"}
  BY DEF ReleaseStale, NoLongerLive, WorkersWind, TypeOK, LockTableOK, WorkersTableOK

-----------------------------------------------------------------------------
(* The actions that wind up *)

\* Whenever a thread ends its job it knows enough of it, late or not.
LEMMA ThreadWinds ==
  ASSUME TypeOK, JobsLeaveNothing, NEW t \in Threads, ThreadStep(t) \/ ThreadFault(t)
  PROVE  WindsUp /\ EndsLeaveNothing
  <1> DEFINE j == thread[t].job
  <1>a. NothingStarts
    BY ThreadStartsNothing
  <1>b. /\ thread[t] \in Thread
        /\ thread[t].pc # "idle" => j \in Jobs /\ thread[t].outcome \in Terminal
    BY DEF TypeOK, ThreadsOK, Thread, Terminal
  <1>c. UNCHANGED loopVars => toRun' \subseteq toRun
    BY DEF loopVars
  <1>1. CASE StartJob(t)
    <2>1. CASE ~Row(j)
      BY <1>a, <1>c, <1>1, <2>1, ReleaseWinds, UnchangedWindsUp DEF StartJob, WindsUp
    <2>2. CASE Row(j) /\ genut[j] = None
      <3>1. FinishJob(j, Fresh(j), "failed") /\ Release(t) /\ j \in Jobs /\ "failed" \in Terminal
        BY <1>b, <1>1, <2>2 DEF StartJob, Terminal
      <3>2. RowsWind /\ WorkersWind /\ EndsLeaveNothing
        BY <3>1, FreshKnows, FinishJobWinds, FinishJobLeavesNothing
      <3> QED
        BY <1>a, <1>c, <1>1, <3>1, <3>2, ReleaseWinds DEF StartJob, WindsUp
    <2>3. CASE Row(j) /\ genut[j] # None
      <3> DEFINE th == [thread[t] EXCEPT !.pc = "run", !.seen = Fresh(j)]
      <3>1. SetThread(t, th) /\ thread[t].pc # "idle"
        BY <1>1, <2>3 DEF StartJob
      <3>2. th.job = thread[t].job /\ th.role = thread[t].role /\ th.seen = Fresh(j)
        BY <1>b DEF Thread
      <3> HIDE DEF th
      <3>3. ThreadsWind
        BY <2>3, <3>1, <3>2, SetThreadWinds
      <3> QED
        BY <1>a, <1>c, <1>1, <2>3, <3>3, UnchangedWindsUp DEF StartJob, WindsUp
    <2> QED BY <2>1, <2>2, <2>3
  <1>2. CASE StartJobFails(t)
    BY <1>a, <1>c, <1>2, ReleaseWinds, UnchangedWindsUp DEF StartJobFails, WindsUp
  <1>3. CASE StartPrep(t)
    <2>1. CASE Row(j) /\ Running(j)
      <3> DEFINE th == [thread[t] EXCEPT !.pc = "run", !.seen = Fresh(j)]
      <3>1. SetThread(t, th) /\ thread[t].pc # "idle"
        BY <1>3, <2>1 DEF StartPrep
      <3>2. th.job = thread[t].job /\ th.role = thread[t].role /\ th.role # "job"
        BY <1>b, <1>3 DEF Thread, StartPrep
      <3> HIDE DEF th
      <3>3. ThreadsWind
        BY <3>1, <3>2, SetThreadWinds
      <3> QED
        BY <1>a, <1>c, <1>3, <3>3, UnchangedWindsUp DEF StartPrep, WindsUp
    <2>2. CASE ~(Row(j) /\ Running(j))
      BY <1>a, <1>c, <1>3, <2>2, ReleaseWinds, UnchangedWindsUp DEF StartPrep, WindsUp
    <2> QED BY <2>1, <2>2
  <1>4. CASE Register(t)
    BY <1>a, <1>c, <1>4, UnchangedWindsUp DEF Register, WindsUp
  <1>5. CASE AutoEnqueue(t)
    <2>1. RowsWind /\ EndsLeaveNothing
      BY <1>5, InsertWinds DEF AutoEnqueue
    <2> QED
      BY <1>a, <1>c, <1>5, <2>1, UnchangedWindsUp DEF AutoEnqueue, WindsUp
  <1>6. CASE RunReturns(t)
    <2>1. PICK o \in {"done", "failed"} :
            SetThread(t, [thread[t] EXCEPT
                            !.pc = "unregister",
                            !.outcome = IF j \in canceled THEN "canceled" ELSE o])
      BY <1>6 DEF RunReturns
    <2> DEFINE th == [thread[t] EXCEPT
                        !.pc = "unregister",
                        !.outcome = IF j \in canceled THEN "canceled" ELSE o]
    <2>2. SetThread(t, th) /\ thread[t].pc = "run"
      BY <1>6, <2>1 DEF RunReturns
    <2>3. th.job = thread[t].job /\ th.role = thread[t].role /\ th.seen = thread[t].seen
      BY <1>b DEF Thread
    <2> HIDE DEF th
    <2>4. ThreadsWind
      BY <2>2, <2>3, SetThreadWinds DEF HasLoaded
    <2> QED
      BY <1>a, <1>c, <1>6, <2>4, UnchangedWindsUp DEF RunReturns, WindsUp
  <1>7. CASE Unregister(t)
    <2> DEFINE th == [thread[t] EXCEPT !.pc = "finish"]
    <2>2. SetThread(t, th) /\ thread[t].pc = "unregister"
      BY <1>7 DEF Unregister
    <2>3. th.job = thread[t].job /\ th.role = thread[t].role /\ th.seen = thread[t].seen
      BY <1>b DEF Thread
    <2> HIDE DEF th
    <2>4. ThreadsWind
      BY <2>2, <2>3, SetThreadWinds DEF HasLoaded
    <2> QED
      BY <1>a, <1>c, <1>7, <2>4, UnchangedWindsUp DEF Unregister, WindsUp
  <1>8. CASE Finish(t)
    <2>1. thread[t].role = "job" => Knows(thread[t].seen, j)
      BY <1>8 DEF Finish, HasLoaded, Knows, JobsLeaveNothing, SessionsFit
    <2>2. RowsWind /\ WorkersWind /\ EndsLeaveNothing
      BY <1>b, <1>8, <2>1, EndWithLeavesNothing DEF Finish
    <2> QED
      BY <1>a, <1>c, <1>8, <2>2, ReleaseWinds DEF Finish, WindsUp
  <1>9. CASE FinishFallback(t)
    <2>1. Knows(Fresh(j), j)
      BY <1>b, <1>9, FreshKnows DEF FinishFallback
    <2>2. RowsWind /\ WorkersWind /\ EndsLeaveNothing
      BY <1>9, <2>1, EndWithLeavesNothing DEF FinishFallback, Terminal
    <2> QED
      BY <1>a, <1>c, <1>9, <2>2, ReleaseWinds DEF FinishFallback, WindsUp
  <1>10. CASE FinishLost(t)
    BY <1>a, <1>c, <1>10, ReleaseWinds, UnchangedWindsUp DEF FinishLost, WindsUp
  <1> QED
    BY <1>1, <1>2, <1>3, <1>4, <1>5, <1>6, <1>7, <1>8, <1>9, <1>10
       DEF ThreadStep, ThreadFault

\* So does the watchdog, whether it sees that the thread was faster or not.
LEMMA LoopWinds ==
  ASSUME TypeOK, JobsLeaveNothing,
         \/ ClaimAborts \/ ReleaseStaleLocks
         \/ ReapScan \/ ReapKill \/ ReapFinish \/ ReapLost \/ LoopError
         \/ ClaimPrepLost \/ \E p \in Products : EnqueueDueCycle(p)
  PROVE  WindsUp /\ EndsLeaveNothing
  <1>a. NothingStarts
    BY LoopStartsNothing
  <1>1. CASE ClaimAborts
    BY <1>a, <1>1, UnchangedWindsUp DEF ClaimAborts, WindsUp
  <1>2. CASE ReleaseStaleLocks
    <2>1. WorkersWind
      BY <1>2, ReleaseStaleLeavesNothing DEF ReleaseStaleLocks
    <2> QED
      BY <1>a, <1>2, <2>1, UnchangedWindsUp DEF ReleaseStaleLocks, WindsUp
  <1>3. CASE ReapScan
    BY <1>a, <1>3, UnchangedWindsUp DEF ReapScan, WindsUp
  <1>4. CASE ReapKill
    BY <1>a, <1>4, UnchangedWindsUp DEF ReapKill, WindsUp
  <1>5. CASE ReapFinish
    <2>1. reaping \in Jobs /\ "failed" \in Terminal
      BY <1>5 DEF ReapFinish, TypeOK, LoopOK, Terminal
    <2>2. PICK v \in {Fresh(reaping), [Fresh(reaping) EXCEPT !.status = "running"]} :
            FinishJob(reaping, v, "failed")
      BY <1>5 DEF ReapFinish
    <2>3. Knows(v, reaping)
      BY <2>1, <2>2, FreshKnows
    <2>4. RowsWind /\ WorkersWind /\ EndsLeaveNothing
      BY <2>1, <2>2, <2>3, FinishJobWinds, FinishJobLeavesNothing
    <2> QED
      BY <1>a, <1>5, <2>4, UnchangedWindsUp DEF ReapFinish, WindsUp
  <1>6. CASE ReapLost
    BY <1>a, <1>6, UnchangedWindsUp DEF ReapLost, WindsUp
  <1>7. CASE LoopError
    BY <1>a, <1>7, UnchangedWindsUp DEF LoopError, WindsUp
  <1>8. CASE \E p \in Products : EnqueueDueCycle(p)
    <2>1. RowsWind /\ EndsLeaveNothing /\ toRun' \subseteq toRun
      BY <1>8, CycleWinds DEF EnqueueDueCycle, loopVars
    <2> QED
      BY <1>a, <1>8, <2>1, UnchangedWindsUp DEF EnqueueDueCycle, WindsUp
  <1>9. CASE ClaimPrepLost
    BY <1>a, <1>9, UnchangedWindsUp DEF ClaimPrepLost, WindsUp
  <1> QED
    BY <1>1, <1>2, <1>3, <1>4, <1>5, <1>6, <1>7, <1>8, <1>9

\* No request ends a running job: a cancellation only flags it.
LEMMA ClientWinds ==
  ASSUME ~ReuseIds, TypeOK, ClientStep
  PROVE  WindsUp /\ EndsLeaveNothing
  <1>a. NothingStarts
    BY ClientStartsNothing
  <1>b. UNCHANGED loopVars => toRun' \subseteq toRun
    BY DEF loopVars
  <1> SUFFICES /\ RowsWind /\ EndsLeaveNothing
               /\ WorkersWind /\ UNCHANGED <<thread, loopVars>>
    BY <1>a, <1>b, UnchangedWindsUp DEF WindsUp
  <1>1. ASSUME NEW p \in Products, SubmitRequest(p)
        PROVE  RowsWind /\ EndsLeaveNothing
    BY <1>1, InsertWinds DEF SubmitRequest
  <1>2. ASSUME NEW p \in Products, CancelAllJobs(p)
        PROVE  RowsWind /\ EndsLeaveNothing
    BY <1>2 DEF CancelAllJobs, TypeOK, JobsTableOK, RowsWind, EndsLeaveNothing, Row, RowStatus,
                Terminal, Running
  <1>4. ASSUME NEW p \in Products, DeleteFinishedJobs(p)
        PROVE  RowsWind /\ EndsLeaveNothing
    BY <1>4, DeleteWinds DEF DeleteFinishedJobs
  <1>6. ASSUME NEW p \in Products, RunAutoNowInsert(p)
        PROVE  RowsWind /\ EndsLeaveNothing
    BY <1>6, CycleWinds DEF RunAutoNowInsert
  <1>7. ASSUME NEW j \in Jobs, RerunJob(j)
        PROVE  RowsWind /\ EndsLeaveNothing
    BY <1>7, InsertWinds DEF RerunJob
  <1>10. ASSUME NEW j \in Jobs, DeleteJob(j)
         PROVE  RowsWind /\ EndsLeaveNothing
    BY <1>10, DeleteWinds DEF DeleteJob
  <1>11. RowsWind /\ EndsLeaveNothing
    BY <1>1, <1>2, <1>4, <1>6, <1>7, <1>10, UnchangedWindsUp
       DEF ClientStep, CancelAllScan, RunAutoNow, CancelJob, Kill, SetEnabled
  <1>12. WorkersWind
    BY UnchangedWindsUp
       DEF ClientStep, SubmitRequest, CancelAllJobs, CancelAllScan, DeleteFinishedJobs,
           RunAutoNow, RunAutoNowInsert, RerunJob, CancelJob, Kill, DeleteJob, SetEnabled,
           WorkersWind
  <1>13. UNCHANGED <<thread, loopVars>>
    BY DEF ClientStep, SubmitRequest, CancelAllJobs, CancelAllScan, DeleteFinishedJobs,
           RunAutoNow, RunAutoNowInsert, RerunJob, CancelJob, Kill, DeleteJob, SetEnabled
  <1> QED
    BY <1>11, <1>12, <1>13

\* A start of the server winds up too, if only by forgetting.
LEMMA EnvironmentWinds ==
  ASSUME TypeOK, (\E j \in Jobs : Age(j)) \/ Crash \/ Boot \/ BootFails
  PROVE  WindsUp /\ (loop # "boot" => EndsLeaveNothing)
  <1>a. NothingStarts
    BY EnvironmentStartsNothing
  <1>1. CASE \E j \in Jobs : Age(j)
    <2>1. UNCHANGED <<status, genut, workersTable, thread, toRun>>
      BY <1>1 DEF Age, loopVars
    <2> QED
      BY <1>a, <2>1, UnchangedWindsUp DEF WindsUp
  <1>2. CASE Crash
    <2>1. ThreadsWind /\ toRun' \subseteq toRun
      BY <1>2 DEF Crash, ThreadsWind, HasLoaded, IdleThread
    <2> QED
      BY <1>a, <1>2, <2>1, UnchangedWindsUp DEF Crash, WindsUp
  <1>3. ASSUME status' = Interrupted, UNCHANGED genut
        PROVE  RowsWind
    BY <1>3 DEF Interrupted, TypeOK, JobsTableOK, RowsWind, Running, Row, RowStatus, Terminal
  <1>4. CASE Boot
    <2>1. WorkersWind
      BY <1>4, ReleaseStaleLeavesNothing DEF Boot
    <2> QED
      BY <1>a, <1>3, <1>4, <2>1, UnchangedWindsUp DEF Boot, WindsUp
  <1>5. CASE BootFails
    BY <1>a, <1>3, <1>5, UnchangedWindsUp DEF BootFails, WindsUp
  <1> QED
    BY <1>1, <1>2, <1>4, <1>5

-----------------------------------------------------------------------------
(* The claims and the dispatch *)

\* claim_jobs chooses jobs that never ran and idle workers, one each.
LEMMA ClaimReadLeaves ==
  ASSUME TypeOK, JobsLeaveNothing, ClaimRead
  PROVE  JobsLeaveNothing'
  <1> DEFINE eligible == FirstOfKey({j \in Jobs : status[j] = "queued" /\ kind[j] = "genut"})
             picked   == {j \in eligible :
                            Cardinality({i \in eligible : i < j}) < Cardinality(IdleWorkers)}
  <1>1. PICK f \in [picked -> IdleWorkers] :
          /\ \A i, j \in picked : f[i] = f[j] => i = j
          /\ plan' = {[job |-> j, worker |-> f[j], product |-> product[j]] : j \in picked}
    BY DEF ClaimRead
  <1>2. \A j \in picked : genut[j] = None
    BY DEF FirstOfKey, JobsLeaveNothing, NoneAssigned
  <1> HIDE DEF picked
  <1>3. \A r \in plan' : /\ r.job \in picked /\ r.worker = f[r.job]
                         /\ r = [job |-> r.job, worker |-> f[r.job], product |-> product[r.job]]
    BY <1>1
  <1>4. \A w \in IdleWorkers : workerStatus[w] = "idle"
    BY DEF IdleWorkers
  <1>5. UNCHANGED <<jobsTable, lock, workersTable, thread, toRun>>
    BY DEF ClaimRead
  <1>6. PlanAssignsOnce'
    BY <1>1, <1>2, <1>3, <1>4, <1>5 DEF PlanAssignsOnce, jobsTable, workersTable
  <1> QED
    BY <1>5, <1>6
       DEF JobsLeaveNothing, LocksAreOwned, WorkersAreOwned, NoneAssigned, RolesFit, SessionsFit,
           HasLoaded, Serves, Row, IsPrep, Running, jobsTable, workersTable

\* claim_jobs loads the rows of its plan.
LEMMA ClaimLoadLeaves ==
  ASSUME TypeOK, KeysAreOwned, JobsLeaveNothing, ClaimLoad
  PROVE  JobsLeaveNothing'
  <1>1. plan' \subseteq plan
    <2>1. \A r \in plan : Row(r.job) => [r EXCEPT !.product = product[r.job]] = r
      BY DEF KeysAreOwned, PlanHolds, TypeOK, LoopOK, Assignment
    <2> QED
      BY <2>1 DEF ClaimLoad
  <1>2. UNCHANGED <<jobsTable, lock, workersTable, thread, toRun>>
    BY DEF ClaimLoad
  <1>3. PlanAssignsOnce'
    BY <1>1, <1>2 DEF JobsLeaveNothing, PlanAssignsOnce, jobsTable, workersTable
  <1> QED
    BY <1>2, <1>3
       DEF JobsLeaveNothing, LocksAreOwned, WorkersAreOwned, NoneAssigned, RolesFit, SessionsFit,
           HasLoaded, Serves, Row, IsPrep, Running, jobsTable, workersTable

\* The writes of claim_jobs: a job, its worker and its lock are tied to each other; what
\* belongs to other jobs stays.
LEMMA ClaimWriteTies ==
  ASSUME TypeOK, KeysAreOwned, JobsLeaveNothing, ClaimWrite
  PROVE  /\ \A r \in Kept :
              /\ r \in plan /\ r.job \in Jobs /\ r.worker \in Workers /\ r.product \in Products
              /\ Row(r.job) /\ ~IsPrep(r.job) /\ product[r.job] = r.product
              /\ genut[r.job] = None
              /\ status'[r.job] = "running" /\ genut'[r.job] = r.worker
              /\ lock'[r.product] = r.job /\ current'[r.worker] = r.job
         /\ \A j \in Jobs : (\A r \in Kept : r.job # j) =>
              status'[j] = status[j] /\ genut'[j] = genut[j]
         /\ \A p \in Products : (\A r \in Kept : r.product # p) => lock'[p] = lock[p]
         /\ \A w \in Workers : (\A r \in Kept : r.worker # w) =>
              workerStatus'[w] = workerStatus[w] /\ current'[w] = current[w]
  <1>1. /\ status' = [j \in Jobs |-> IF \E r \in Kept : r.job = j THEN "running" ELSE status[j]]
        /\ genut' = [j \in Jobs |-> IF \E r \in Kept : r.job = j
                                    THEN (CHOOSE r \in Kept : r.job = j).worker ELSE genut[j]]
        /\ workerStatus' = [w \in Workers |->
             IF \E r \in Kept : r.worker = w THEN "busy" ELSE workerStatus[w]]
        /\ current' = [w \in Workers |->
             IF \E r \in Kept : r.worker = w
             THEN (CHOOSE r \in Kept : r.worker = w).job ELSE current[w]]
        /\ \A a, b \in Refused : a = b
    BY DEF ClaimWrite
  <1>2. \A r \in Kept :
          /\ r \in plan /\ r.job \in Jobs /\ r.worker \in Workers /\ r.product \in Products
          /\ Row(r.job) /\ ~IsPrep(r.job) /\ product[r.job] = r.product
          /\ genut[r.job] = None
    BY <1>1, KeptIsPlanned
       DEF Assignment, KeysAreOwned, PlanHolds, JobsLeaveNothing, PlanAssignsOnce
  <1>3. /\ \A r \in Kept : lock'[r.product] = r.job
        /\ \A p \in Products : (\A r \in Kept : r.product # p) => lock'[p] = lock[p]
    BY ClaimWriteEffect
  <1>4. ASSUME NEW r \in Kept
        PROVE  status'[r.job] = "running" /\ genut'[r.job] = r.worker /\ current'[r.worker] = r.job
    <2> DEFINE s == CHOOSE s \in Kept : s.job = r.job
               u == CHOOSE u \in Kept : u.worker = r.worker
    <2>1. s \in Kept /\ s.job = r.job /\ u \in Kept /\ u.worker = r.worker
      OBVIOUS
    <2>2. s = r
      BY <1>2, <2>1 DEF KeysAreOwned, PlanHolds
    <2>3. u = r
      BY <1>2, <2>1 DEF JobsLeaveNothing, PlanAssignsOnce
    <2>4. status'[r.job] = "running" /\ genut'[r.job] = s.worker
      BY <1>1, <1>2
    <2>5. current'[r.worker] = u.job
      BY <1>1, <1>2
    <2> QED
      BY <2>2, <2>3, <2>4, <2>5
  <1>5. \A j \in Jobs : (\A r \in Kept : r.job # j) =>
          status'[j] = status[j] /\ genut'[j] = genut[j]
    BY <1>1
  <1>6. \A w \in Workers : (\A r \in Kept : r.worker # w) =>
          workerStatus'[w] = workerStatus[w] /\ current'[w] = current[w]
    BY <1>1
  <1> QED
    BY <1>2, <1>3, <1>4, <1>5, <1>6

\* What the claim writes points both ways: lock, job and worker.
LEMMA ClaimWriteLeaves ==
  ASSUME TypeOK, KeysAreOwned, JobsLeaveNothing, ClaimWrite
  PROVE  JobsLeaveNothing'
  <1>1. UNCHANGED <<kind, product, thread>> /\ plan' = {}
    BY DEF ClaimWrite
  <1>a. None \notin Workers /\ None \notin Jobs
    BY ConstantsAssumption
  <1>2. ASSUME NEW j \in Jobs, genut[j] # None
        PROVE  /\ \A r \in Kept : r.job # j
               /\ status'[j] = status[j] /\ genut'[j] = genut[j]
               /\ \A w \in Workers : Serves(w, j)' => Serves(w, j)
    <2>1. \A r \in Kept : r.job # j
      BY <1>2, ClaimWriteTies
    <2>2. status'[j] = status[j] /\ genut'[j] = genut[j]
      BY <2>1, ClaimWriteTies
    <2>3. \A w \in Workers : Serves(w, j)' => Serves(w, j)
      BY <2>1, ClaimWriteTies DEF Serves
    <2> QED BY <2>1, <2>2, <2>3
  <1>3. \A j \in Jobs : /\ status[j] # "none" => status'[j] # "none"
                        /\ Row(j)' => Row(j)
                        /\ IsPrep(j)' <=> IsPrep(j)
    BY <1>1, ClaimWriteTies DEF Row, IsPrep
  <1>4. LocksAreOwned'
    <2> SUFFICES ASSUME NEW p \in Products, lock'[p] # None
                 PROVE  /\ Row(lock[p])' /\ ~IsPrep(lock[p])'
                        /\ product'[lock'[p]] = p /\ genut'[lock'[p]] # None
      BY DEF LocksAreOwned
    <2>1. CASE \E r \in Kept : r.product = p
      BY <1>1, <1>a, <2>1, ClaimWriteTies DEF Row, RowStatus, IsPrep
    <2>2. CASE \A r \in Kept : r.product # p
      <3>1. lock'[p] = lock[p] /\ lock[p] \in Jobs
        BY <2>2, ClaimWriteTies DEF TypeOK, LockTableOK
      <3>2. /\ Row(lock[p]) /\ ~IsPrep(lock[p]) /\ product[lock[p]] = p
            /\ genut[lock[p]] # None
        BY <3>1 DEF JobsLeaveNothing, LocksAreOwned
      <3> QED
        BY <1>1, <1>2, <3>1, <3>2 DEF Row, IsPrep
    <2> QED BY <2>1, <2>2
  <1>5. WorkersAreOwned'
    <2> SUFFICES ASSUME NEW w \in Workers, NEW j \in Jobs, Serves(w, j)'
                 PROVE  status'[j] # "none" /\ (Row(j)' => genut'[j] = w)
      BY DEF WorkersAreOwned
    <2>1. CASE \E r \in Kept : r.worker = w
      BY <2>1, ClaimWriteTies DEF Serves
    <2>2. CASE \A r \in Kept : r.worker # w
      <3>1. Serves(w, j)
        BY <2>2, ClaimWriteTies DEF Serves
      <3>2. status[j] # "none" /\ (Row(j) => genut[j] = w)
        BY <3>1 DEF JobsLeaveNothing, WorkersAreOwned
      <3> QED
        BY <1>2, <1>3, <1>a, <3>2
    <2> QED BY <2>1, <2>2
  <1>6. NoneAssigned'
    <2> SUFFICES ASSUME NEW j \in Jobs,
                        status'[j] \in {"none", "queued"} \/ (Row(j)' /\ IsPrep(j)')
                 PROVE  genut'[j] = None
      BY DEF NoneAssigned
    <2>1. \A r \in Kept : r.job # j
      BY <1>3, ClaimWriteTies
    <2>2. status'[j] = status[j] /\ genut'[j] = genut[j]
      BY <2>1, ClaimWriteTies
    <2> QED
      BY <1>3, <2>2 DEF JobsLeaveNothing, NoneAssigned
  <1>7. PlanAssignsOnce'
    BY <1>1 DEF PlanAssignsOnce
  <1>8. RolesFit'
    <2>1. \A t \in Threads : thread[t].pc # "idle" => thread[t].job \in Jobs
      BY DEF TypeOK, ThreadsOK
    <2>2. \A k \in toRun' : \E r \in plan : /\ k = [job |-> r.job, role |-> "job"]
                                            /\ r.job \in Jobs
                                            /\ status[r.job] # "none"
                                            /\ Row(r.job) => ~IsPrep(r.job)
      BY DEF ClaimWrite, KeysAreOwned, PlanHolds, TypeOK, LoopOK, Assignment
    <2> QED
      BY <1>1, <1>3, <2>1, <2>2 DEF JobsLeaveNothing, RolesFit
  <1>9. SessionsFit'
    <2> SUFFICES ASSUME NEW t \in Threads,
                        HasLoaded(t), thread[t].role = "job",
                        status'[thread[t].job] \in RowStatus
                 PROVE  /\ genut'[thread[t].job] # None
                        /\ thread[t].seen.product = product[thread[t].job]
                        /\ thread[t].seen.genut = genut'[thread[t].job]
                        /\ status'[thread[t].job] = "running" =>
                             \A w \in Workers :
                               workerStatus'[w] = "busy" /\ current'[w] = thread[t].job =>
                                 thread[t].seen.current = thread[t].job
      BY <1>1 DEF SessionsFit, HasLoaded, Running, Row, Serves
    <2>1. thread[t].job \in Jobs
      BY DEF TypeOK, ThreadsOK, HasLoaded
    <2>2. Row(thread[t].job)
      BY <1>3, <2>1 DEF Row
    <2> QED
      BY <1>2, <2>1, <2>2 DEF JobsLeaveNothing, SessionsFit, Running, Serves
  <1> QED
    BY <1>4, <1>5, <1>6, <1>7, <1>8, <1>9 DEF JobsLeaveNothing

\* What claim_prep_jobs reads disturbs nothing.
LEMMA ClaimPrepReadLeaves ==
  ASSUME JobsLeaveNothing, ClaimPrepRead
  PROVE  JobsLeaveNothing'
  <1>1. UNCHANGED <<jobsTable, lock, workersTable, thread, plan, toRun>>
    BY DEF ClaimPrepRead
  <1> QED
    BY <1>1
       DEF JobsLeaveNothing, LocksAreOwned, WorkersAreOwned, NoneAssigned, PlanAssignsOnce,
           RolesFit, SessionsFit, HasLoaded, Serves, Row, IsPrep, Running, jobsTable, workersTable

\* It starts jobs that no worker serves and no session of a GENUT job knows.
LEMMA ClaimPrepWriteLeaves ==
  ASSUME TypeOK, KeysAreOwned, JobsLeaveNothing, ClaimPrepWrite
  PROVE  JobsLeaveNothing'
  <1>1. /\ status' = [j \in Jobs |-> IF j \in picks THEN "running" ELSE status[j]]
        /\ toRun' = {[job |-> j, role |-> "prep"] : j \in picks}
        /\ UNCHANGED <<kind, product, genut, lock, workerStatus, current, thread, plan>>
    BY DEF ClaimPrepWrite, workersTable
  <1>2. \A j \in picks : j \in Jobs /\ Row(j) /\ IsPrep(j)
    BY DEF ClaimPrepWrite, TypeOK, LoopOK, KeysAreOwned, PicksHold
  <1>3. \A j \in Jobs : /\ Row(j)' <=> Row(j)
                        /\ IsPrep(j)' <=> IsPrep(j)
                        /\ status'[j] \in {"none", "queued"} => status[j] = status'[j]
                        /\ status[j] # "none" => status'[j] # "none"
                        /\ Running(j)' => Running(j) \/ j \in picks
    BY <1>1, <1>2 DEF TypeOK, JobsTableOK, Row, RowStatus, IsPrep, Running
  <1>4. LocksAreOwned' /\ WorkersAreOwned' /\ NoneAssigned' /\ PlanAssignsOnce'
    <2>1. LocksAreOwned'
      BY <1>1, <1>3 DEF JobsLeaveNothing, LocksAreOwned, TypeOK, LockTableOK
    <2>2. WorkersAreOwned'
      BY <1>1, <1>3 DEF JobsLeaveNothing, WorkersAreOwned, Serves
    <2>3. NoneAssigned'
      BY <1>1, <1>3 DEF JobsLeaveNothing, NoneAssigned
    <2>4. PlanAssignsOnce'
      BY <1>1 DEF JobsLeaveNothing, PlanAssignsOnce
    <2> QED BY <2>1, <2>2, <2>3, <2>4
  <1>5. \A t \in Threads : thread[t].pc # "idle" => thread[t].job \in Jobs
    BY DEF TypeOK, ThreadsOK
  <1>6. RolesFit'
    BY <1>1, <1>2, <1>3, <1>5 DEF JobsLeaveNothing, RolesFit
  <1>7. SessionsFit'
    <2> SUFFICES ASSUME NEW t \in Threads,
                        HasLoaded(t), thread[t].role = "job",
                        status'[thread[t].job] \in RowStatus
                 PROVE  /\ genut[thread[t].job] # None
                        /\ thread[t].seen.product = product[thread[t].job]
                        /\ thread[t].seen.genut = genut[thread[t].job]
                        /\ status'[thread[t].job] = "running" =>
                             \A w \in Workers : Serves(w, thread[t].job) =>
                               thread[t].seen.current = thread[t].job
      BY <1>1 DEF SessionsFit, HasLoaded, Serves, Row, Running
    <2>1. thread[t].job \in Jobs /\ Row(thread[t].job)
      BY <1>3, <1>5 DEF HasLoaded, Row
    <2>2. ~IsPrep(thread[t].job)
      BY <2>1 DEF JobsLeaveNothing, RolesFit, HasLoaded
    <2>3. status'[thread[t].job] = "running" => Running(thread[t].job)
      BY <1>2, <1>3, <2>1, <2>2 DEF Running
    <2> QED
      BY <2>1, <2>3 DEF JobsLeaveNothing, SessionsFit
  <1> QED
    BY <1>4, <1>6, <1>7 DEF JobsLeaveNothing

\* A thread gets its job in the role the task has.
LEMMA DispatchLeaves ==
  ASSUME TypeOK, JobsLeaveNothing, Dispatch
  PROVE  JobsLeaveNothing'
  <1>1. PICK k \in toRun, t \in Threads :
          /\ thread[t].pc = "idle"
          /\ SetThread(t, [IdleThread EXCEPT !.pc = "start", !.job = k.job, !.role = k.role])
          /\ toRun' = toRun \ {k}
    BY DEF Dispatch
  <1>2. UNCHANGED <<jobsTable, lock, workersTable, plan>>
    BY DEF Dispatch
  <1>3. /\ \A u \in Threads \ {t} : thread'[u] = thread[u]
        /\ thread'[t].pc = "start" /\ thread'[t].job = k.job /\ thread'[t].role = k.role
    BY <1>1 DEF SetThread, IdleThread, TypeOK, ThreadsOK
  <1>4. RolesFit'
    BY <1>1, <1>2, <1>3 DEF JobsLeaveNothing, RolesFit, Row, IsPrep, jobsTable
  <1>5. SessionsFit'
    BY <1>2, <1>3
       DEF JobsLeaveNothing, SessionsFit, HasLoaded, Row, Running, Serves, jobsTable, workersTable
  <1> QED
    BY <1>2, <1>4, <1>5
       DEF JobsLeaveNothing, LocksAreOwned, WorkersAreOwned, NoneAssigned, PlanAssignsOnce,
           Serves, Row, IsPrep, jobsTable, workersTable

-----------------------------------------------------------------------------
(* What jobs leave behind *)

\* At first there is nothing that could be left.
LEMMA InitLeavesNothing == Init => JobsLeaveNothing
  BY DEF Init, JobsLeaveNothing, LocksAreOwned, WorkersAreOwned, NoneAssigned, PlanAssignsOnce,
         RolesFit, SessionsFit, HasLoaded, Serves, Row, RowStatus, Terminal, IdleThread

\* A step winds up, or it is one of the claims or a dispatch.
LEMMA WindingKinds ==
  ASSUME ~ReuseIds, TypeOK, JobsLeaveNothing, [Next]_vars
  PROVE  \/ WindsUp /\ (loop # "boot" => EndsLeaveNothing)
         \/ ClaimRead \/ ClaimLoad \/ ClaimWrite \/ ClaimPrepRead \/ ClaimPrepWrite \/ Dispatch
  <1>1. CASE UNCHANGED vars
    <2>1. UNCHANGED <<jobsTable, lock, workersTable, thread, loopVars, toRun>>
      BY <1>1 DEF vars, loopVars
    <2>2. NothingStarts
      BY <2>1, UnchangedStartsNothing DEF NothingStarts
    <2> QED
      BY <2>1, <2>2, UnchangedWindsUp DEF WindsUp
  <1>2. CASE Next
    BY <1>2, ThreadWinds, LoopWinds, ClientWinds, EnvironmentWinds DEF Next, LoopStep
  <1> QED BY <1>1, <1>2

\* No step lets a row point to one that does not point back.
LEMMA NextLeavesNothing ==
  ASSUME ~ReuseIds, TypeOK, TypeOK', KeysAreOwned, JobsLeaveNothing, [Next]_vars
  PROVE  JobsLeaveNothing'
  BY WindingKinds, WindsUpKeeps, ClaimReadLeaves, ClaimLoadLeaves, ClaimWriteLeaves,
     ClaimPrepReadLeaves, ClaimPrepWriteLeaves, DispatchLeaves

\* A step that winds up and lets no ending job leave anything behind.
LEMMA WindingLeaksNothing ==
  ASSUME TypeOK, WindsUp, EndsLeaveNothing
  PROVE  StaleLocks' \subseteq StaleLocks /\ IdleButBusy' \subseteq IdleButBusy
  <1>1. ASSUME NEW p \in StaleLocks'
        PROVE  p \in StaleLocks
    <2>1. p \in Products /\ lock'[p] # None /\ lock'[p] = lock[p] /\ lock[p] \in Jobs
      BY <1>1 DEF StaleLocks, WindsUp, NothingStarts, NoLockIsTaken, TypeOK, LockTableOK
    <2>2. status'[lock[p]] # "running"
      BY <1>1, <2>1 DEF StaleLocks, Running
    <2> QED
      BY <2>1, <2>2 DEF StaleLocks, EndsLeaveNothing, Running
  <1>2. ASSUME NEW w \in IdleButBusy'
        PROVE  w \in IdleButBusy
    <2>1. w \in Workers /\ workerStatus'[w] = "busy" /\ workerStatus[w] = "busy"
          /\ current'[w] = current[w] /\ current[w] \in Jobs \cup {None}
      BY <1>2 DEF IdleButBusy, WindsUp, WorkersWind, TypeOK, WorkersTableOK
    <2>2. current[w] = None \/ status'[current[w]] # "running"
      BY <1>2, <2>1 DEF IdleButBusy, Running
    <2> QED
      BY <2>1, <2>2 DEF IdleButBusy, EndsLeaveNothing, Serves, Running
  <1> QED BY <1>1, <1>2

\* What a claim locks and makes busy it starts.
LEMMA ClaimsLeakNothing ==
  ASSUME TypeOK, KeysAreOwned, JobsLeaveNothing,
         ClaimRead \/ ClaimLoad \/ ClaimWrite \/ ClaimPrepRead \/ ClaimPrepWrite \/ Dispatch
  PROVE  StaleLocks' \subseteq StaleLocks /\ IdleButBusy' \subseteq IdleButBusy
  <1>0. /\ \A p \in Products : lock[p] # None => lock[p] \in Jobs
        /\ \A w \in Workers : current[w] # None => current[w] \in Jobs
    BY DEF TypeOK, LockTableOK, WorkersTableOK
  <1>1. CASE ClaimRead \/ ClaimLoad \/ ClaimPrepRead \/ Dispatch
    <2>1. UNCHANGED <<status, lock, workerStatus, current>>
      BY <1>1 DEF ClaimRead, ClaimLoad, ClaimPrepRead, Dispatch, jobsTable, workersTable
    <2> QED
      BY <2>1 DEF StaleLocks, IdleButBusy, Running
  <1>2. CASE ClaimPrepWrite
    <2>1. /\ UNCHANGED <<lock, workerStatus, current>>
          /\ \A j \in Jobs : status[j] = "running" => status'[j] = "running"
      BY <1>2 DEF ClaimPrepWrite, workersTable
    <2> QED
      BY <1>0, <2>1 DEF StaleLocks, IdleButBusy, Running
  <1>3. CASE ClaimWrite
    <2>1. \A j \in Jobs : status[j] = "running" => status'[j] = "running"
      BY <1>3, ClaimWriteTies
    <2>2. ASSUME NEW p \in StaleLocks'
          PROVE  p \in StaleLocks
      <3>1. p \in Products /\ lock'[p] # None /\ status'[lock'[p]] # "running"
        BY <2>2 DEF StaleLocks, Running
      <3>2. lock'[p] = lock[p]
        BY <1>3, <3>1, ClaimWriteTies
      <3> QED
        BY <1>0, <2>1, <3>1, <3>2 DEF StaleLocks, Running
    <2>3. ASSUME NEW w \in IdleButBusy'
          PROVE  w \in IdleButBusy
      <3>1. /\ w \in Workers /\ workerStatus'[w] = "busy"
            /\ current'[w] = None \/ status'[current'[w]] # "running"
        BY <2>3 DEF IdleButBusy, Running
      <3>2. \A r \in Kept : r.job # None
        BY <1>3, ClaimWriteTies, ConstantsAssumption
      <3>3. workerStatus'[w] = workerStatus[w] /\ current'[w] = current[w]
        BY <1>3, <3>1, <3>2, ClaimWriteTies
      <3> QED
        BY <1>0, <2>1, <3>1, <3>3 DEF IdleButBusy, Running
    <2> QED BY <2>2, <2>3
  <1> QED BY <1>1, <1>2, <1>3

\* The steps that leave the sweep or the start behind, with their work done.
LEMMA SweepSteps ==
  ASSUME TypeOK, [Next]_vars, loop \in {"sweep", "boot"}, loop' \notin {loop, "boot"},
         UNCHANGED faults
  PROVE  ReleaseStaleLocks \/ Boot
  <1>1. ~Spend
    BY DEF Spend, TypeOK, BudgetsOK
  <1>2. loop' # loop
    OBVIOUS
  <1>3. ~UNCHANGED vars /\ ~UNCHANGED loopVars
    BY <1>2 DEF vars, loopVars
  <1>4. \A t \in Threads : ~ThreadStep(t) /\ ~ThreadFault(t)
    BY <1>3 DEF ThreadStep, ThreadFault, StartJob, StartJobFails, StartPrep, Register,
                AutoEnqueue, RunReturns, Unregister, Finish, FinishFallback, FinishLost
  <1>5. ~ClientStep
    BY <1>3 DEF ClientStep, SubmitRequest, CancelAllJobs, CancelAllScan, DeleteFinishedJobs,
                RunAutoNow, RunAutoNowInsert, RerunJob, CancelJob, Kill, DeleteJob, SetEnabled
  <1>6. /\ ~LoopError /\ ~ReapLost /\ ~Crash /\ ~BootFails
        /\ \A p \in Products : ~EnqueueDueCycle(p)
        /\ \A j \in Jobs : ~Age(j)
    BY <1>1, <1>3 DEF LoopError, ReapLost, Crash, BootFails, EnqueueDueCycle, Age
  <1>7. LoopStep => ReleaseStaleLocks
    BY DEF LoopStep, ClaimRead, ClaimLoad, ClaimWrite, ClaimAborts, Dispatch,
           ClaimPrepRead, ClaimPrepWrite, ClaimPrepLost, ReapScan, ReapKill, ReapFinish
  <1> QED
    BY <1>3, <1>4, <1>5, <1>6, <1>7 DEF Next

\* Either leaves no lock and no worker to a job that does not run.
LEMMA SweepsFree ==
  ASSUME TypeOK, TypeOK', JobsLeaveNothing', ReleaseStaleLocks \/ Boot
  PROVE  StaleLocks' = {} /\ IdleButBusy' = {}
  <1>1. PICK st : ReleaseStale(st) /\ status' = st
    BY DEF ReleaseStaleLocks, Boot, jobsTable
  <1>2. ASSUME NEW j \in Jobs, status'[j] \in {"queued", "running"}, genut'[j] # None
        PROVE  status'[j] = "running"
    BY <1>2 DEF JobsLeaveNothing, NoneAssigned
  <1>3. ASSUME NEW p \in StaleLocks'
        PROVE  FALSE
    <2>1. /\ p \in Products /\ lock'[p] # None /\ lock'[p] \in Jobs
          /\ status'[lock'[p]] # "running"
      BY <1>3 DEF StaleLocks, Running, TypeOK, LockTableOK
    <2>2. genut'[lock'[p]] # None
      BY <2>1 DEF JobsLeaveNothing, LocksAreOwned
    <2>3. status'[lock'[p]] \in {"queued", "running"}
      BY <1>1, <2>1, ReleaseStaleLeavesNothing
    <2> QED
      BY <1>2, <2>1, <2>2, <2>3
  <1>4. ASSUME NEW w \in IdleButBusy'
        PROVE  FALSE
    <2>1. /\ w \in Workers /\ workerStatus'[w] = "busy"
          /\ current'[w] = None \/ status'[current'[w]] # "running"
      BY <1>4 DEF IdleButBusy, Running
    <2>2. current'[w] # None /\ status'[current'[w]] \in {"queued", "running"}
      BY <1>1, <2>1, ReleaseStaleLeavesNothing
    <2>3. current'[w] \in Jobs /\ status'[current'[w]] \in RowStatus /\ w # None
      BY <2>1, <2>2, ConstantsAssumption DEF TypeOK, WorkersTableOK, RowStatus
    <2>4. genut'[current'[w]] # None
      BY <2>1, <2>3 DEF JobsLeaveNothing, WorkersAreOwned, Serves, Row
    <2> QED
      BY <1>2, <2>1, <2>2, <2>3, <2>4
  <1> QED BY <1>3, <1>4

\* A step leaks only if it is a start of the server, and a sweep or a start that goes
\* through repairs all leaks.
LeaksAtStarts ==
  /\ loop # "boot" => StaleLocks' \subseteq StaleLocks /\ IdleButBusy' \subseteq IdleButBusy
  /\ loop \in {"sweep", "boot"} /\ loop' \notin {loop, "boot"} /\ UNCHANGED faults
       => StaleLocks' = {} /\ IdleButBusy' = {}

\* Every step is one of these.
LEMMA NextLeaksAtStarts ==
  ASSUME ~ReuseIds, TypeOK, TypeOK', KeysAreOwned, JobsLeaveNothing, JobsLeaveNothing',
         [Next]_vars
  PROVE  LeaksAtStarts
  <1>1. loop # "boot" => StaleLocks' \subseteq StaleLocks /\ IdleButBusy' \subseteq IdleButBusy
    BY WindingKinds, WindingLeaksNothing, ClaimsLeakNothing
  <1>2. loop \in {"sweep", "boot"} /\ loop' \notin {loop, "boot"} /\ UNCHANGED faults
          => StaleLocks' = {} /\ IdleButBusy' = {}
    BY SweepSteps, SweepsFree
  <1> QED BY <1>1, <1>2 DEF LeaksAtStarts

\* The rows of jobs, locks and workers point to each other as claim_jobs tied them.
THEOREM LeavingNothing ==
  ASSUME ~ReuseIds
  PROVE  Spec => []JobsLeaveNothing
  <1>1. Init => JobsLeaveNothing
    BY InitLeavesNothing
  <1>2. TypeOK /\ TypeOK' /\ KeysAreOwned /\ JobsLeaveNothing /\ [Next]_vars => JobsLeaveNothing'
    BY NextLeavesNothing
  <1> QED
    BY <1>1, <1>2, KeysOwned, TypeCorrect, PTL DEF Spec

\* Locks and workers outlive their job through a failed start of the server only, whatever
\* late threads, the watchdog, a rolled-back claim or a canceled job do; and a sweep or a
\* start that goes through frees all of them (engine.release_stale_locks).
THEOREM LeaksOnlyAtStarts ==
  ASSUME ~ReuseIds
  PROVE  Spec => OnlyStartsLeak
  <1>1. TypeOK /\ TypeOK' /\ KeysAreOwned /\ JobsLeaveNothing /\ JobsLeaveNothing' /\ [Next]_vars
          => LeaksAtStarts
    BY NextLeaksAtStarts
  <1> QED
    BY <1>1, LeavingNothing, KeysOwned, TypeCorrect, PTL DEF Spec, OnlyStartsLeak, LeaksAtStarts

\* As long as no transaction failed, a lock and a busy worker belong to a running job at
\* any time.
NoneLeaked == ServerUp /\ faults = 0 => StaleLocks = {} /\ IdleButBusy = {}

\* Until then no step leaves anything behind.
LEMMA NextLeaksNone ==
  ASSUME TypeOK, TypeOK', LeaksAtStarts, NoneLeaked, [Next]_vars
  PROVE  NoneLeaked'
  <1> SUFFICES ASSUME loop' # "boot", faults' = 0
               PROVE  StaleLocks' = {} /\ IdleButBusy' = {}
    BY DEF NoneLeaked, ServerUp
  <1>1. faults = 0
    <2>1. UNCHANGED vars => UNCHANGED faults
      BY DEF vars, budgets
    <2>2. Next => UNCHANGED faults \/ Spend
      BY DEF Next, ThreadStep, ThreadFault, StartJob, StartJobFails, StartPrep, Register,
             AutoEnqueue, RunReturns, Unregister, Finish, FinishFallback, FinishLost,
             LoopStep, ClaimRead, ClaimLoad, ClaimWrite, ClaimAborts, Dispatch,
             ClaimPrepRead, ClaimPrepWrite, ClaimPrepLost, ReleaseStaleLocks, ReapScan, ReapKill, ReapFinish, LoopError, ReapLost,
             EnqueueDueCycle, ClientStep, SubmitRequest, CancelAllJobs, CancelAllScan,
             DeleteFinishedJobs, RunAutoNow, RunAutoNowInsert, RerunJob, CancelJob, Kill,
             DeleteJob, SetEnabled, Age, Crash, Boot, BootFails, budgets
    <2>3. faults \in Nat
      BY DEF TypeOK, BudgetsOK
    <2> QED
      BY <2>1, <2>2, <2>3 DEF Spend
  <1>2. CASE loop = "boot"
    BY <1>1, <1>2 DEF LeaksAtStarts
  <1>3. CASE loop # "boot"
    BY <1>1, <1>3 DEF NoneLeaked, ServerUp, LeaksAtStarts
  <1> QED BY <1>2, <1>3

\* So the sweep has nothing to do until a transaction fails: what finish_job, the watchdog,
\* cancel and delete give back is all there is.
THEOREM NothingLeaked ==
  ASSUME ~ReuseIds
  PROVE  Spec => []NoneLeaked
  <1>1. Init => NoneLeaked
    BY DEF Init, NoneLeaked, ServerUp
  <1>2. TypeOK /\ TypeOK' /\ KeysAreOwned /\ JobsLeaveNothing /\ JobsLeaveNothing'
          /\ NoneLeaked /\ [Next]_vars => NoneLeaked'
    BY NextLeaksAtStarts, NextLeaksNone
  <1> QED
    BY <1>1, <1>2, LeavingNothing, KeysOwned, TypeCorrect, PTL DEF Spec

-----------------------------------------------------------------------------
(* The workers as an implementation of ExclusiveKeys *)

\* A worker is held by the job it serves, if that runs, and by none otherwise.
HeldWhileServing ==
  \A w \in Workers :
    /\ \A j \in Jobs : Serves(w, j) /\ Running(j) => workerHolder[w] = j
    /\ workerHolder[w] # None =>
         \E j \in Jobs : Serves(w, j) /\ Running(j) /\ workerHolder[w] = j

\* It is so in every state, before a step and after it.
LEMMA HoldersServe ==
  ASSUME TypeOK, TypeOK'
  PROVE  HeldWhileServing /\ HeldWhileServing'
  <1>1. HeldWhileServing
    BY ConstantsAssumption DEF HeldWhileServing, workerHolder, Serves, TypeOK, WorkersTableOK
  <1>2. HeldWhileServing'
    BY ConstantsAssumption DEF HeldWhileServing, workerHolder, Serves, TypeOK, WorkersTableOK
  <1> QED BY <1>1, <1>2

\* A step by which workers are only given back.
LEMMA WorkersLeave ==
  ASSUME TypeOK, TypeOK', WindsUp
  PROVE  AbstractWorkers!Leave
  <1> DEFINE S == {w \in Workers : workerHolder'[w] = None}
  <1>1. ASSUME NEW w \in Workers, workerHolder'[w] # None
        PROVE  workerHolder'[w] = workerHolder[w]
    <2>1. PICK j \in Jobs : Serves(w, j)' /\ Running(j)' /\ workerHolder'[w] = j
      BY <1>1, HoldersServe DEF HeldWhileServing
    <2>2. Serves(w, j) /\ Running(j)
      BY <2>1 DEF WindsUp, WorkersWind, NothingStarts, NoJobStarts, Serves
    <2> QED
      BY <2>1, <2>2, HoldersServe DEF HeldWhileServing
  <1>2. workerHolder' = [w \in Workers |-> IF w \in S THEN None ELSE workerHolder[w]]
    <2>1. workerHolder' = [w \in Workers |-> workerHolder'[w]]
      BY DEF workerHolder
    <2>2. \A w \in Workers : workerHolder'[w] = IF w \in S THEN None ELSE workerHolder[w]
      BY <1>1
    <2> HIDE DEF S
    <2> QED BY <2>1, <2>2
  <1>3. S \in SUBSET Workers
    OBVIOUS
  <1> HIDE DEF S
  <1> QED
    BY <1>2, <1>3 DEF AbstractWorkers!Leave

\* A step by which no worker loses its job: those that get one get each another.
LEMMA WorkersTake ==
  ASSUME TypeOK, TypeOK', JobsLeaveNothing',
         \A w \in Workers, j \in Jobs : Serves(w, j) /\ Running(j) => Serves(w, j)' /\ Running(j)'
  PROVE  AbstractWorkers!Take
  <1>1. \A w \in Workers : workerHolder'[w] # None =>
          /\ workerHolder'[w] \in Jobs
          /\ \E j \in Jobs : j = workerHolder'[w] /\ Serves(w, j)' /\ Running(j)'
    BY HoldersServe DEF HeldWhileServing
  <1>2. workerHolder' \in [Workers -> Jobs \cup {None}]
    <2>1. \A w \in Workers : workerHolder'[w] \in Jobs \cup {None}
      BY <1>1
    <2> QED
      BY <2>1 DEF workerHolder
  <1>3. ASSUME NEW w \in Workers, workerHolder[w] # None
        PROVE  workerHolder'[w] = workerHolder[w]
    <2>1. PICK j \in Jobs : Serves(w, j) /\ Running(j) /\ workerHolder[w] = j
      BY <1>3, HoldersServe DEF HeldWhileServing
    <2>2. Serves(w, j)' /\ Running(j)'
      BY <2>1
    <2> QED
      BY <2>1, <2>2, HoldersServe DEF HeldWhileServing
  <1>4. ASSUME NEW v \in Workers, NEW w \in Workers,
               workerHolder'[v] = workerHolder'[w], workerHolder'[v] # None
        PROVE  v = w
    <2>1. PICK j \in Jobs : Serves(v, j)' /\ Serves(w, j)' /\ Running(j)'
      BY <1>1, <1>4
    <2>2. genut'[j] = v /\ genut'[j] = w
      BY <2>1 DEF JobsLeaveNothing, WorkersAreOwned, Running, Row, RowStatus
    <2> QED BY <2>2
  <1> QED
    BY <1>2, <1>3, <1>4 DEF AbstractWorkers!Take

\* Every step of the scheduler gives workers back, takes free ones or leaves them alone.
LEMMA WorkerStepImplements ==
  ASSUME ~ReuseIds, TypeOK, TypeOK', KeysAreOwned, JobsLeaveNothing, JobsLeaveNothing',
         [Next]_vars
  PROVE  [AbstractWorkers!Next]_workerHolder
  <1>1. CASE WindsUp
    BY <1>1, WorkersLeave DEF AbstractWorkers!Next
  <1>2. CASE ClaimRead \/ ClaimLoad \/ ClaimPrepRead \/ Dispatch
    <2>1. UNCHANGED <<status, workerStatus, current>>
      BY <1>2 DEF ClaimRead, ClaimLoad, ClaimPrepRead, Dispatch, jobsTable, workersTable
    <2> QED
      BY <2>1 DEF workerHolder, Serves, Running
  <1>3. CASE ClaimWrite
    <2> SUFFICES ASSUME NEW w \in Workers, NEW j \in Jobs, Serves(w, j), Running(j)
                 PROVE  Serves(w, j)' /\ Running(j)'
      BY WorkersTake DEF AbstractWorkers!Next
    <2>1. \A r \in Kept : r.worker # w
      BY <1>3, ClaimWriteTies DEF JobsLeaveNothing, PlanAssignsOnce, Serves
    <2>2. workerStatus'[w] = workerStatus[w] /\ current'[w] = current[w]
      BY <1>3, <2>1, ClaimWriteTies
    <2>3. status'[j] = "running"
      BY <1>3, ClaimWriteTies DEF Running
    <2> QED
      BY <2>2, <2>3 DEF Serves, Running
  <1>4. CASE ClaimPrepWrite
    <2>1. /\ UNCHANGED <<workerStatus, current>>
          /\ \A j \in Jobs : Running(j) => Running(j)'
      BY <1>4 DEF ClaimPrepWrite, Running, workersTable
    <2>2. \A w \in Workers, j \in Jobs :
            Serves(w, j) /\ Running(j) => Serves(w, j)' /\ Running(j)'
      BY <2>1 DEF Serves
    <2> QED
      BY <2>2, WorkersTake DEF AbstractWorkers!Next
  <1> QED
    BY <1>1, <1>2, <1>3, <1>4, WindingKinds

\* The table of workers implements ExclusiveKeys as well.  There is no condition on claims
\* or on how long a thread takes: a late thread may free the worker of another job, but no
\* worker passes from job to job without having been idle, and no job gets two.
THEOREM WorkersRefinement ==
  ASSUME ~ReuseIds
  PROVE  Spec => ImplementsExclusiveWorkers
  <1>1. Init => AbstractWorkers!Init
    BY DEF Init, AbstractWorkers!Init, workerHolder, Running
  <1>2. TypeOK /\ TypeOK' /\ KeysAreOwned /\ JobsLeaveNothing /\ JobsLeaveNothing' /\ [Next]_vars
          => [AbstractWorkers!Next]_workerHolder
    BY WorkerStepImplements
  <1> QED
    BY <1>1, <1>2, LeavingNothing, KeysOwned, TypeCorrect, PTL
       DEF Spec, ImplementsExclusiveWorkers, AbstractWorkers!Spec

=============================================================================
