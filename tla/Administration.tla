---------------------------- MODULE Administration ----------------------------
(***************************************************************************)
(* Products and workers (GENUT instances) are created, renamed and deleted *)
(* while jobs are submitted, claimed and run: product_service,             *)
(* genut_service and the foreign keys of db.models.                        *)
(*                                                                         *)
(* A read takes no lock, the first write of a session takes it until the   *)
(* commit: a request or a claim is a step that reads and a step that       *)
(* writes.  What JobScheduler models of a claim and of the end of a job is *)
(* here as far as deleted rows matter; the watchdog, the sweep, cancels   *)
(* and restarts are not.                                                   *)
(***************************************************************************)
EXTENDS Naturals, FiniteSets

CONSTANTS
  Jobs,         \* ids of jobs, given out in order
  KindOf,       \* KindOf[j]: "genut" or "prep"
  Products, Workers,   \* ids of rows; a deleted row's id is given out again
  Names,        \* names stand for pairs (project, name)
  FirstNames,   \* the names the products may have at the start
  None,
  MaxCalls,     \* bound: API calls between two of their statements
  MaxEdits      \* bound: requests to create, rename or delete

ASSUME AdministrationAssumption ==
  /\ Jobs \subseteq Nat /\ Products \subseteq Nat /\ Workers \subseteq Nat
  /\ FirstNames \subseteq [Products -> Names]
  /\ KindOf \in [Jobs -> {"genut", "prep"}]
  /\ None \notin Names \cup Jobs \cup Products \cup Workers
  /\ MaxCalls \in Nat /\ MaxEdits \in Nat

VARIABLES
  name,         \* table products: None where there is no row
  job,          \* table jobs: [status, product, genut]; status "new" before, "gone" after;
                \* "over" stands for done and failed
  lock,         \* table product_locks: [job, genut], of each product id
  worker,       \* table genut_instances: [there, current]; busy with .current or idle
  requests,     \* API calls in flight: [op, target, saw]; saw: history, the jobs that ran
                \* when it counted
  plan,         \* what a claim has read: sets of [job, genut], of a preparation job with
                \* genut None
  thread,       \* the thread of each job: [pc, genut, mine], what its session remembers
  lost,         \* history: jobs that a request claimed to be inactive has robbed of their
                \* row, lock or worker
  moved,        \* history: jobs claimed or running while their product was renamed
  edits

history == <<lost, moved>>
tables  == <<name, job, lock, worker>>
vars == <<tables, requests, plan, thread, history, edits>>

-----------------------------------------------------------------------------
(* Rows *)

Status(j)  == job[j].status
Running(j) == Status(j) = "running"
Active(j)  == Status(j) \in {"queued", "running"}
Row(j)     == Status(j) \notin {"new", "gone"}
Key(j)     == name[job[j].product]
JobsOf(p)  == {j \in Jobs : Row(j) /\ job[j].product = p}

NoLock   == [job |-> None, genut |-> None]
NoWorker == [there |-> FALSE, current |-> None]
IdleWorker == [there |-> TRUE, current |-> None]
NoJob    == [status |-> "new", product |-> None, genut |-> None]
Gone     == [status |-> "gone", product |-> None, genut |-> None]
NoThread == [pc |-> "none", genut |-> None, mine |-> FALSE]

\* SQLite gives out max(rowid) + 1, from 1.
NextId(i, used) == /\ \A k \in used : k < i
                   /\ i = 1 \/ i - 1 \in used

Edit == edits < MaxEdits /\ edits' = edits + 1

-----------------------------------------------------------------------------
(* product_service and genut_service *)

CreateProduct(p, n) ==
  /\ NextId(p, {k \in Products : name[k] # None})
  /\ name' = [name EXCEPT ![p] = n]
  /\ Edit
  /\ UNCHANGED <<job, lock, worker, requests, plan, thread, history>>

\* update_product: any field, the name included, whatever jobs there are.
RenameProduct(p, n) ==
  /\ name[p] \notin {None, n}
  /\ name' = [name EXCEPT ![p] = n]
  /\ moved' = moved \cup {j \in JobsOf(p) : Running(j) \/ \E a \in plan : a.job = j}
  /\ Edit
  /\ UNCHANGED <<job, lock, worker, requests, plan, thread, lost>>

CreateWorker(w) ==
  /\ NextId(w, {k \in Workers : worker[k].there})
  /\ worker' = [worker EXCEPT ![w] = IdleWorker]
  /\ Edit
  /\ UNCHANGED <<name, job, lock, requests, plan, thread, history>>

Asks(op, x, saw) ==
  /\ Cardinality(requests) < MaxCalls
  /\ requests' = requests \cup {[op |-> op, target |-> x, saw |-> saw]}

Answers(r) == requests' = requests \ {r}

\* mutant: the product is deleted whatever it has
CountForProductAnyway(p) ==
  /\ name[p] # None
  /\ Asks("product", p, {j \in JobsOf(p) : Running(j)})
  /\ Edit
  /\ UNCHANGED <<tables, plan, thread, history>>

\* delete_product counts the queued and running jobs of the product...
CountForProduct(p) ==
  /\ name[p] # None
  /\ \A j \in JobsOf(p) : ~Active(j)
  /\ Asks("product", p, {j \in JobsOf(p) : Running(j)})
  /\ Edit
  /\ UNCHANGED <<tables, plan, thread, history>>

Deletes(r, p) ==
  /\ job' = [j \in Jobs |-> IF j \in JobsOf(p) THEN Gone ELSE job[j]]
  /\ name' = [name EXCEPT ![p] = None]
  /\ lock' = [lock EXCEPT ![p] = NoLock]
  /\ lost' = lost \cup {j \in JobsOf(p) \ r.saw : Running(j)}

\* ...and deletes the jobs and the product; locks and patches go by cascade.  The foreign key
\* of a lock to its job makes the deletion fail.
DeleteProduct(r) ==
  LET p == r.target IN
  /\ r.op = "product"
  /\ IF \E j \in JobsOf(p) : \E q \in Products : lock[q].job = j
     THEN UNCHANGED <<name, job, lock, lost>> ELSE Deletes(r, p)
  /\ Answers(r)
  /\ UNCHANGED <<worker, plan, thread, moved, edits>>

\* mutant: the worker is deleted whatever it does
CountForWorkerAnyway(w) ==
  /\ worker[w].there
  /\ Asks("worker", w, {j \in Jobs : Running(j) /\ job[j].genut = w})
  /\ Edit
  /\ UNCHANGED <<tables, plan, thread, history>>

\* delete_genut counts the running jobs of the worker...
CountForWorker(w) ==
  /\ worker[w].there
  /\ \A j \in Jobs : job[j].genut = w => ~Running(j)
  /\ Asks("worker", w, {j \in Jobs : Running(j) /\ job[j].genut = w})
  /\ Edit
  /\ UNCHANGED <<tables, plan, thread, history>>

\* ...and takes it out of all jobs and locks.
DeleteWorker(r) ==
  LET w == r.target IN
  /\ r.op = "worker"
  /\ job' = [j \in Jobs |-> IF job[j].genut = w THEN [job[j] EXCEPT !.genut = None] ELSE job[j]]
  /\ lock' = [p \in Products |-> IF lock[p].genut = w THEN NoLock ELSE lock[p]]
  /\ worker' = [worker EXCEPT ![w] = NoWorker]
  /\ lost' = lost \cup {j \in Jobs \ r.saw : Running(j) /\ job[j].genut = w}
  /\ Answers(r)
  /\ UNCHANGED <<name, plan, thread, moved, edits>>

-----------------------------------------------------------------------------
(* job_service, engine and worker *)

\* submit_request, rerun_job and a cycle read the product...
Submit(p) ==
  /\ name[p] # None
  /\ Asks("submit", p, {})
  /\ UNCHANGED <<tables, plan, thread, history, edits>>

\* ...and insert the job, into whatever product has the id now, if any has.
Insert(r) ==
  LET p == r.target IN
  /\ r.op = "submit"
  /\ IF name[p] = None THEN UNCHANGED job
     ELSE \E j \in Jobs : /\ Status(j) = "new" /\ \A k \in Jobs : k < j => Status(k) # "new"
                          /\ job' = [job EXCEPT ![j] = [NoJob EXCEPT !.status = "queued",
                                                                     !.product = p]]
  /\ Answers(r)
  /\ UNCHANGED <<name, lock, worker, plan, thread, history, edits>>

BusyNames == {name[p] : p \in {q \in Products : lock[q] # NoLock}}
               \cup {Key(j) : j \in {i \in Jobs : Running(i) /\ KindOf[i] = "prep"}}

Eligible(kind) ==
  LET C == {j \in Jobs : Status(j) = "queued" /\ KindOf[j] = kind /\ Key(j) \notin BusyNames}
  IN  {j \in C : \A i \in C : i < j => Key(i) # Key(j)}

\* claim_jobs, the reads.
ClaimRead ==
  LET idle == {w \in Workers : worker[w] = IdleWorker} IN
  /\ plan = {}
  /\ \E S \in SUBSET Eligible("genut"), f \in [Jobs -> idle] :
       /\ S # {} /\ \A i, j \in S : f[i] = f[j] => i = j
       /\ \/ S = Eligible("genut") \/ Cardinality(S) = Cardinality(idle)
       /\ \A i \in Eligible("genut") \ S : \A j \in S : j < i
       /\ plan' = {[job |-> j, genut |-> f[j]] : j \in S}
  /\ UNCHANGED <<tables, requests, thread, history, edits>>

\* Of the assignments P, those whose lock is refused: the job or the worker is gone, or
\* another job holds the lock.  A refusal undoes the assignments before it, and a second
\* one ends the claim.
Refused(P) == {a \in P : ~Row(a.job) \/ ~worker[a.genut].there \/ lock[job[a.job].product] # NoLock}
Twice(P)   == \E a, b \in Refused(P) : a # b
Kept(P)    == IF Twice(P) THEN {} ELSE IF Refused(P) = {} THEN P
              ELSE {a \in P : \E b \in Refused(P) : b.job < a.job}

\* The claim is of GENUT jobs, of preparation jobs.
Assigns  == plan # {} /\ \A a \in plan : a.genut # None
Prepares == plan # {} /\ \A a \in plan : a.genut = None

\* claim_jobs, the writes.  Jobs that are gone when the rows are loaded are passed over.
ClaimWrite ==
  /\ Assigns
  /\ \E P \in {plan, {a \in plan : Row(a.job)}} :
       LET K == Kept(P)
           due == IF Twice(P) THEN {} ELSE P \ Refused(P)
       IN
       /\ job' = [j \in Jobs |-> IF \E a \in K : a.job = j
                    THEN [job[j] EXCEPT !.status = "running",
                                        !.genut = (CHOOSE a \in K : a.job = j).genut]
                    ELSE job[j]]
       /\ lock' = [p \in Products |-> IF \E a \in K : job[a.job].product = p
                     THEN CHOOSE a \in K : job[a.job].product = p ELSE lock[p]]
       /\ worker' = [w \in Workers |-> IF \E a \in K : a.genut = w
                       THEN [there |-> TRUE, current |-> (CHOOSE a \in K : a.genut = w).job]
                       ELSE worker[w]]
       /\ thread' = [j \in Jobs |-> IF \E a \in due : a.job = j
                       THEN [thread[j] EXCEPT !.pc = "due"] ELSE thread[j]]
  /\ plan' = {}
  /\ UNCHANGED <<name, requests, history, edits>>

\* claim_prep_jobs, the reads: no worker is needed...
ClaimPrepRead ==
  /\ plan = {} /\ Eligible("prep") # {}
  /\ plan' = {[job |-> j, genut |-> None] : j \in Eligible("prep")}
  /\ UNCHANGED <<tables, requests, thread, history, edits>>

\* ...and the commit, whatever the rows say by now.  If one is gone nothing is written.
ClaimPrepWrite ==
  LET P == IF \A a \in plan : Row(a.job) THEN {a.job : a \in plan} ELSE {} IN
  /\ Prepares
  /\ job' = [j \in Jobs |-> IF j \in P THEN [job[j] EXCEPT !.status = "running"] ELSE job[j]]
  /\ thread' = [j \in Jobs |-> IF j \in P THEN [thread[j] EXCEPT !.pc = "due"] ELSE thread[j]]
  /\ plan' = {}
  /\ UNCHANGED <<name, lock, worker, requests, history, edits>>

\* finish_job; the worker of a job that is over is only displayed.
Ends(j) ==
  job' = [job EXCEPT ![j] = [status |-> "over", product |-> @.product, genut |-> None]]
Leaves(j) == thread' = [thread EXCEPT ![j] = NoThread]

\* release_lock
Unlocks(j) == lock' = [p \in Products |-> IF lock[p].job = j THEN NoLock ELSE lock[p]]

\* The thread loads job, product and worker.
Start(j) ==
  /\ thread[j].pc = "due"
  /\ \/ ~Row(j) /\ Leaves(j) /\ UNCHANGED job
     \/ /\ Row(j) /\ KindOf[j] = "genut" /\ job[j].genut = None
        /\ Ends(j) /\ Leaves(j)
     \/ /\ Row(j) /\ (KindOf[j] = "genut" => job[j].genut # None)
        /\ thread' = [thread EXCEPT ![j] =
             [pc |-> "run", genut |-> job[j].genut,
              mine |-> job[j].genut # None /\ worker[job[j].genut].current = j]]
        /\ UNCHANGED job
  /\ UNCHANGED <<name, lock, worker, requests, plan, history, edits>>

\* mutant: no fallback
FinishGenutOnce(j) ==
  LET w == thread[j].genut IN
  /\ thread[j].pc = "run" /\ KindOf[j] = "genut" /\ Row(j)
  /\ IF thread[j].mine /\ ~worker[w].there THEN UNCHANGED <<job, lock, worker, lost>>
     ELSE /\ Ends(j)
          /\ Unlocks(j)
          /\ worker' = [worker EXCEPT ![w] = IF thread[j].mine THEN IdleWorker ELSE @]
          /\ lost' = lost \cup (IF thread[j].mine THEN {worker[w].current} \ {None, j} ELSE {})
  /\ Leaves(j)
  /\ UNCHANGED <<name, requests, plan, moved, edits>>

\* The end: the session frees the worker it remembers, whoever has its id now.  If there is
\* no such row the transaction fails, and the fallback ends the job as failed.
FinishGenut(j) ==
  LET w == thread[j].genut IN
  /\ thread[j].pc = "run" /\ KindOf[j] = "genut" /\ Row(j)
  /\ Unlocks(j)
  /\ IF thread[j].mine /\ ~worker[w].there THEN Ends(j) /\ UNCHANGED <<worker, lost>>
     ELSE /\ Ends(j)
          /\ worker' = [worker EXCEPT ![w] = IF thread[j].mine THEN IdleWorker ELSE @]
          /\ lost' = lost \cup (IF thread[j].mine THEN {worker[w].current} \ {None, j} ELSE {})
  /\ Leaves(j)
  /\ UNCHANGED <<name, requests, plan, moved, edits>>

FinishPrep(j) ==
  /\ thread[j].pc = "run" /\ KindOf[j] = "prep" /\ Row(j)
  /\ Ends(j)
  /\ Leaves(j)
  /\ UNCHANGED <<name, lock, worker, requests, plan, history, edits>>

\* The job is gone: nothing is left to be ended.
FinishNothing(j) ==
  /\ thread[j].pc = "run" /\ ~Row(j)
  /\ Leaves(j)
  /\ UNCHANGED <<tables, requests, plan, history, edits>>

-----------------------------------------------------------------------------

Init ==
  /\ name \in FirstNames
  /\ job = [j \in Jobs |-> NoJob]
  /\ lock = [p \in Products |-> NoLock]
  /\ worker = [w \in Workers |-> IdleWorker]
  /\ requests = {}
  /\ plan = {}
  /\ thread = [j \in Jobs |-> NoThread]
  /\ lost = {} /\ moved = {} /\ edits = 0

Administers ==
  \/ \E p \in Products, n \in Names : CreateProduct(p, n) \/ RenameProduct(p, n)
  \/ \E p \in Products : CountForProduct(p) \/ Submit(p)
  \/ \E w \in Workers : CreateWorker(w) \/ CountForWorker(w)

Responds(r) == DeleteProduct(r) \/ DeleteWorker(r) \/ Insert(r)

Works(j) == Start(j) \/ FinishGenut(j) \/ FinishPrep(j) \/ FinishNothing(j)

Next ==
  \/ Administers
  \/ \E r \in requests : Responds(r)
  \/ ClaimRead \/ ClaimWrite \/ ClaimPrepRead \/ ClaimPrepWrite
  \/ \E j \in Jobs : Works(j)

Spec == Init /\ [][Next]_vars

\* A claim that has read writes; threads run and jobs end.
Fairness ==
  /\ WF_vars(ClaimWrite) /\ WF_vars(ClaimPrepWrite)
  /\ \A j \in Jobs : WF_vars(Works(j))

FairSpec == Spec /\ Fairness

-----------------------------------------------------------------------------
(* Properties *)

Runs(j) == thread[j].pc = "run"

\* Jobs that run at the same time have different keys and different workers, unless a
\* request that had counted before their claim deleted a row of theirs, or their product
\* was renamed meanwhile (delete_genut, delete_product, update_product).
RunnersApart ==
  \A i, j \in Jobs :
    /\ i # j /\ Runs(i) /\ Runs(j)
    /\ {i, j} \cap (lost \cup moved) = {}
    => Key(i) # Key(j) /\ (thread[i].genut # thread[j].genut \/ thread[i].genut = None)

\* No request deletes the row of a running GENUT job that has its lock, although
\* delete_product has counted before the job was claimed; of preparation jobs, which have
\* no lock, it may delete those that were claimed after it had counted.
RunningRowsStay ==
  [][\A j \in Jobs : Running(j) /\ Status(j)' = "gone"
       => j \in lost' /\ (KindOf[j] = "prep" \/ j \in lost)]_vars

\* Whatever is deleted while it runs, a job ends, without the watchdog, and no lock and no
\* worker stays with it.
JobsLetGo ==
  <>[](\A j \in Jobs : /\ ~Running(j)
                       /\ \A p \in Products : lock[p].job # j
                       /\ \A w \in Workers : worker[w].current # j)

=============================================================================
