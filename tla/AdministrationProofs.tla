-------------------------- MODULE AdministrationProofs --------------------------
(***************************************************************************)
(* That deletions leave the rows of running jobs alone, and that running   *)
(* jobs are apart, for every number of jobs, products, workers and         *)
(* requests.                                                               *)
(***************************************************************************)
EXTENDS Administration, TLAPS

\* The type invariant that the proof needs.
Rows ==
  /\ job \in [Jobs -> [status : {"new", "gone", "queued", "running", "over"},
                       product : Products \cup {None}, genut : Workers \cup {None}]]
  /\ lock \in [Products -> [job : Jobs \cup {None}, genut : Workers \cup {None}]]
  /\ \A j \in Jobs : Row(j) => job[j].product \in Products

\* What a claim has read are jobs of different products, all GENUT jobs with a worker or all
\* preparation jobs without.
PlanApart ==
  /\ plan \subseteq [job : Jobs, genut : Workers \cup {None}]
  /\ \A a \in plan : KindOf[a.job] = IF a.genut = None THEN "prep" ELSE "genut"
  /\ \A a, b \in plan : a.genut = None => b.genut = None
  /\ \A a, b \in plan : a # b => a.job # b.job
  /\ \A a, b \in plan : a # b /\ Row(a.job) /\ Row(b.job) => job[a.job].product # job[b.job].product
  /\ \A a \in plan : Status(a.job) # "new"

\* A request to delete has seen no running job; and requests are about products there may be.
NothingSeen ==
  \A r \in requests : r.saw = {} /\ (r.op \in {"product", "submit"} => r.target \in Products)

\* A running GENUT job has the lock of its product, with its worker.
HoldsLock(j) == lock[job[j].product] = [job |-> j, genut |-> job[j].genut]
LocksStay ==
  \A j \in Jobs : Running(j) /\ KindOf[j] = "genut" /\ j \notin lost => HoldsLock(j)

\* The inductive invariant.
AdminInv == Rows /\ PlanApart /\ NothingSeen /\ LocksStay

\* The action of RunningRowsStay.
Stays == \A j \in Jobs : Running(j) /\ Status(j)' = "gone"
           => j \in lost' /\ (KindOf[j] = "prep" \/ j \in lost)

-----------------------------------------------------------------------------
(* Proofs *)

LEMMA AdminStarts == Init => AdminInv
<1> SUFFICES ASSUME Init PROVE AdminInv
  OBVIOUS
<1>1. Rows
  BY DEF Init, Rows, NoJob, NoLock, Row, Status
<1> QED BY <1>1 DEF Init, AdminInv, PlanApart, NothingSeen, LocksStay, Running, Status, NoJob

\* Steps that touch neither jobs nor locks.
LEMMA QuietKeeps ==
  ASSUME AdminInv, UNCHANGED <<job, lock, lost, plan>>, NothingSeen'
  PROVE  AdminInv' /\ Stays
BY DEF AdminInv, Rows, PlanApart, LocksStay, HoldsLock, Row, Running, Status, Stays

\* Steps that end or change only job j, which is afterwards not running, and release locks of
\* j at most.
LEMMA EndKeeps ==
  ASSUME AdminInv, NEW j \in Jobs, NEW r,
         job' = [job EXCEPT ![j] = r],
         r \in [status : {"queued", "over"}, product : Products, genut : Workers \cup {None}],
         Row(j) => r.product = job[j].product, Row(j) \/ Status(j) = "new",
         \/ UNCHANGED lock
         \/ lock' = [p \in Products |-> IF lock[p].job = j THEN NoLock ELSE lock[p]],
         lost \subseteq lost', UNCHANGED plan, NothingSeen'
  PROVE  AdminInv' /\ Stays
<1>1. /\ Rows /\ PlanApart /\ LocksStay
  BY DEF AdminInv
<1>2. /\ job'[j] = r /\ r.status \in {"queued", "over"} /\ r.product \in Products
      /\ \A i \in Jobs \ {j} : job'[i] = job[i]
  BY <1>1 DEF Rows
<1>3. Rows'
  <2>1. job' \in [Jobs -> [status : {"new", "gone", "queued", "running", "over"},
                           product : Products \cup {None}, genut : Workers \cup {None}]]
    <3>1. r \in [status : {"new", "gone", "queued", "running", "over"},
                 product : Products \cup {None}, genut : Workers \cup {None}]
      OBVIOUS
    <3> QED BY <1>1, <3>1 DEF Rows
  <2>2. lock' \in [Products -> [job : Jobs \cup {None}, genut : Workers \cup {None}]]
    BY <1>1 DEF Rows, NoLock
  <2>3. \A i \in Jobs : (Row(i) => job[i].product \in Products)'
    BY <1>1, <1>2 DEF Rows, Row, Status
  <2> QED BY <2>1, <2>2, <2>3 DEF Rows
<1>4. PlanApart'
  <2>1. \A a \in plan : a.job \in Jobs /\ Status(a.job) # "new"
    BY <1>1 DEF PlanApart
  <2>2. \A i \in Jobs : /\ Status(i) # "new" => Status(i)' # "new"
                        /\ Status(i) # "new" /\ Row(i)' => Row(i) /\ job'[i].product = job[i].product
    BY <1>2 DEF Row, Status
  <2> QED BY <1>1, <2>1, <2>2 DEF PlanApart
<1>5. LocksStay'
  <2> SUFFICES ASSUME NEW i \in Jobs, Running(i)', KindOf[i] = "genut", i \notin lost'
               PROVE  HoldsLock(i)'
    BY DEF LocksStay
  <2>1. i # j
    BY <1>2 DEF Running, Status
  <2>2. job'[i] = job[i] /\ Running(i) /\ i \notin lost
    BY <1>2, <2>1 DEF Running, Status
  <2>3. HoldsLock(i) /\ job[i].product \in Products
    BY <1>1, <2>2 DEF LocksStay, Rows, Row, Running, Status
  <2>4. lock'[job[i].product] = lock[job[i].product]
    BY <2>1, <2>3 DEF HoldsLock
  <2> QED BY <2>2, <2>3, <2>4 DEF HoldsLock
<1>6. Stays
  BY <1>2 DEF Stays, Running, Status
<1> QED BY <1>3, <1>4, <1>5, <1>6 DEF AdminInv

\* A product goes only with jobs that have no lock: those that run are preparation jobs, or
\* jobs that have lost their lock before.
LEMMA DeleteProductKeeps ==
  ASSUME AdminInv, NEW r \in requests, DeleteProduct(r)
  PROVE  AdminInv' /\ Stays
<1> DEFINE p == r.target
<1>1. /\ Rows /\ PlanApart /\ LocksStay /\ NothingSeen /\ NothingSeen' /\ r.saw = {}
  BY DEF AdminInv, NothingSeen, DeleteProduct, Answers
<1>2. CASE UNCHANGED <<job, lock, lost, plan>>
  BY <1>1, <1>2, QuietKeeps
<1>3. CASE ~ UNCHANGED <<job, lock, lost, plan>>
  <2>1. /\ ~ \E j \in JobsOf(p) : \E q \in Products : lock[q].job = j
        /\ job' = [j \in Jobs |-> IF j \in JobsOf(p) THEN Gone ELSE job[j]]
        /\ lock' = [lock EXCEPT ![p] = NoLock]
        /\ lost' = lost \cup {j \in JobsOf(p) : Running(j)}
        /\ plan' = plan
    BY <1>1, <1>3 DEF DeleteProduct, Deletes
  <2>2. \A j \in Jobs : Status(j)' # "gone" => j \notin JobsOf(p) /\ job'[j] = job[j]
    BY <2>1 DEF Gone, Status
  <2>3. Rows'
    <3>1. Gone \in [status : {"new", "gone", "queued", "running", "over"},
                    product : Products \cup {None}, genut : Workers \cup {None}]
      BY DEF Gone
    <3>2. NoLock \in [job : Jobs \cup {None}, genut : Workers \cup {None}]
      BY DEF NoLock
    <3>3. \A j \in Jobs : (Row(j) => job[j].product \in Products)'
      BY <1>1, <2>2 DEF Rows, Row, Status
    <3> QED BY <1>1, <2>1, <3>1, <3>2, <3>3 DEF Rows
  <2>4. PlanApart'
    <3>1. \A a \in plan : a.job \in Jobs /\ Status(a.job) # "new"
      BY <1>1 DEF PlanApart
    <3>2. \A j \in Jobs : /\ Status(j) # "new" => Status(j)' # "new"
                          /\ Row(j)' => Row(j) /\ job'[j].product = job[j].product
      BY <2>1, <2>2 DEF Row, Status, Gone
    <3> QED BY <1>1, <2>1, <3>1, <3>2 DEF PlanApart
  <2>5. \A j \in JobsOf(p) : Running(j) => KindOf[j] # "genut" \/ j \in lost
    <3> SUFFICES ASSUME NEW j \in JobsOf(p), Running(j), KindOf[j] = "genut", j \notin lost
                 PROVE  FALSE
      OBVIOUS
    <3>1. HoldsLock(j) /\ job[j].product \in Products /\ j \in Jobs
      BY <1>1 DEF LocksStay, Rows, JobsOf
    <3> QED BY <2>1, <3>1 DEF HoldsLock
  <2>6. LocksStay'
    <3> SUFFICES ASSUME NEW i \in Jobs, Running(i)', KindOf[i] = "genut", i \notin lost'
                 PROVE  HoldsLock(i)'
      BY DEF LocksStay
    <3>1. i \notin JobsOf(p) /\ job'[i] = job[i] /\ Running(i) /\ i \notin lost
      BY <2>1, <2>2 DEF Running, Status
    <3>2. HoldsLock(i) /\ job[i].product \in Products /\ job[i].product # p
      BY <1>1, <3>1 DEF LocksStay, Rows, JobsOf, Row, Running, Status
    <3>3. lock'[job[i].product] = lock[job[i].product]
      BY <1>1, <2>1, <3>2 DEF Rows
    <3> QED BY <3>1, <3>2, <3>3 DEF HoldsLock
  <2>7. Stays
    <3> SUFFICES ASSUME NEW j \in Jobs, Running(j), Status(j)' = "gone"
                 PROVE  j \in lost' /\ (KindOf[j] = "prep" \/ j \in lost)
      BY DEF Stays
    <3>1. j \in JobsOf(p)
      BY <2>1 DEF Running, Status
    <3>2. KindOf[j] \in {"genut", "prep"}
      BY AdministrationAssumption
    <3> QED BY <2>1, <2>5, <3>1, <3>2
  <2> QED BY <1>1, <2>3, <2>4, <2>6, <2>7 DEF AdminInv
<1> QED BY <1>2, <1>3

\* A worker goes with the locks that name it, and the jobs that had them are lost.
LEMMA DeleteWorkerKeeps ==
  ASSUME AdminInv, NEW r \in requests, DeleteWorker(r)
  PROVE  AdminInv' /\ Stays
<1> DEFINE w == r.target
<1>1. /\ Rows /\ PlanApart /\ LocksStay /\ NothingSeen'
      /\ job' = [j \in Jobs |-> IF job[j].genut = w THEN [job[j] EXCEPT !.genut = None] ELSE job[j]]
      /\ lock' = [p \in Products |-> IF lock[p].genut = w THEN NoLock ELSE lock[p]]
      /\ lost' = lost \cup {j \in Jobs : Running(j) /\ job[j].genut = w}
      /\ plan' = plan
  BY DEF AdminInv, NothingSeen, DeleteWorker, Answers
<1>2. \A j \in Jobs :
        /\ Status(j)' = Status(j) /\ job'[j].product = job[j].product
        /\ job[j].genut # w => job'[j] = job[j]
        /\ job'[j] \in [status : {"new", "gone", "queued", "running", "over"},
                        product : Products \cup {None}, genut : Workers \cup {None}]
  BY <1>1 DEF Rows, Status
<1>3. Rows'
  <2>1. NoLock \in [job : Jobs \cup {None}, genut : Workers \cup {None}]
    BY DEF NoLock
  <2> QED BY <1>1, <1>2, <2>1 DEF Rows, Row, Status
<1>4. PlanApart'
  BY <1>1, <1>2 DEF PlanApart, Row, Status
<1>5. LocksStay'
  <2> SUFFICES ASSUME NEW i \in Jobs, Running(i)', KindOf[i] = "genut", i \notin lost'
               PROVE  HoldsLock(i)'
    BY DEF LocksStay
  <2>1. Running(i) /\ i \notin lost /\ job[i].genut # w
    BY <1>1, <1>2 DEF Running
  <2>2. HoldsLock(i) /\ job'[i] = job[i] /\ job[i].product \in Products
    BY <1>1, <1>2, <2>1 DEF LocksStay, Rows, Row, Running, Status
  <2>3. lock'[job[i].product] = lock[job[i].product]
    BY <1>1, <2>1, <2>2 DEF HoldsLock
  <2> QED BY <2>2, <2>3 DEF HoldsLock
<1>6. Stays
  BY <1>2 DEF Stays, Running
<1> QED BY <1>1, <1>3, <1>4, <1>5, <1>6 DEF AdminInv

LEMMA InsertKeeps ==
  ASSUME AdminInv, NEW r \in requests, Insert(r)
  PROVE  AdminInv' /\ Stays
<1>1. NothingSeen' /\ UNCHANGED <<lock, lost, plan>> /\ r.target \in Products
  BY DEF AdminInv, NothingSeen, Insert, Answers, history
<1>2. CASE UNCHANGED job
  BY <1>1, <1>2, QuietKeeps
<1>3. CASE ~ UNCHANGED job
  <2>1. PICK j \in Jobs :
          /\ Status(j) = "new"
          /\ job' = [job EXCEPT ![j] = [NoJob EXCEPT !.status = "queued", !.product = r.target]]
    BY <1>3 DEF Insert
  <2> DEFINE q == [NoJob EXCEPT !.status = "queued", !.product = r.target]
  <2>2. q \in [status : {"queued", "over"}, product : Products, genut : Workers \cup {None}]
    BY <1>1 DEF NoJob
  <2>3. ~Row(j)
    BY <2>1 DEF Row
  <2>4. job' = [job EXCEPT ![j] = q]
    BY <2>1
  <2> HIDE DEF q
  <2> QED BY <1>1, <2>1, <2>2, <2>3, <2>4, EndKeeps
<1> QED BY <1>2, <1>3

\* What is claimed together has different keys, hence different products.
LEMMA ClaimReadKeeps == ASSUME AdminInv, ClaimRead PROVE AdminInv' /\ Stays
<1>1. PICK S \in SUBSET Eligible("genut"), f \in [Jobs -> {w \in Workers : worker[w] = IdleWorker}] :
        plan' = {[job |-> j, genut |-> f[j]] : j \in S}
  BY DEF ClaimRead
<1>2. UNCHANGED <<job, lock, requests, lost>>
  BY DEF ClaimRead, tables, history
<1>3. \A j \in S : j \in Jobs /\ Status(j) = "queued" /\ KindOf[j] = "genut"
  BY DEF Eligible
<1>4. \A i, j \in S : i # j => job[i].product # job[j].product
  <2> SUFFICES ASSUME NEW i \in S, NEW j \in S, i # j PROVE Key(i) # Key(j)
    BY DEF Key
  <2>1. i \in Nat /\ j \in Nat
    BY <1>3, AdministrationAssumption
  <2>2. i < j \/ j < i
    BY <2>1
  <2> QED BY <2>2 DEF Eligible
<1>5. PlanApart'
  <2>1. \A a \in plan' : a.job \in S /\ a.genut \in Workers /\ a = [job |-> a.job, genut |-> f[a.job]]
    BY <1>1, <1>3
  <2>2. \A a, b \in plan' : a # b => a.job # b.job
    BY <2>1
  <2>3. \A j \in Jobs : Status(j)' = Status(j) /\ job'[j] = job[j]
    BY <1>2 DEF Status
  <2>4. plan' \subseteq [job : Jobs, genut : Workers \cup {None}]
    BY <1>3, <2>1
  <2>5. \A a \in plan' : KindOf[a.job] = "genut" /\ Status(a.job)' # "new"
    BY <1>3, <2>1, <2>3
  <2>6. \A a, b \in plan' : a # b => job'[a.job].product # job'[b.job].product
    BY <1>3, <1>4, <2>1, <2>2, <2>3
  <2>7. \A a \in plan' : a.genut # None
    BY <2>1, AdministrationAssumption
  <2> QED BY <2>2, <2>4, <2>5, <2>6, <2>7 DEF PlanApart
<1> QED BY <1>2, <1>5 DEF AdminInv, NothingSeen, Rows, LocksStay, HoldsLock, Row, Running, Status,
                          Stays

\* Of what a claim has read, the assignments that it writes have a row.
LEMMA KeptIsRead ==
  ASSUME AdminInv, Assigns, NEW P \in {plan, {a \in plan : Row(a.job)}}, NEW a \in Kept(P)
  PROVE  /\ a \in plan /\ a.job \in Jobs /\ a.genut \in Workers
         /\ Row(a.job) /\ lock[job[a.job].product] = NoLock
<1>1. /\ plan \subseteq [job : Jobs, genut : Workers \cup {None}] /\ P \subseteq plan
  BY DEF AdminInv, PlanApart
<1>2. /\ a \in P /\ a.job \in Jobs /\ a.job \in Nat
      /\ ~Twice(P) /\ (Refused(P) = {} \/ \E b \in Refused(P) : b.job < a.job)
  <2>1. /\ a \in P
        /\ ~Twice(P) /\ (Refused(P) = {} \/ \E b \in Refused(P) : b.job < a.job)
    BY DEF Kept
  <2> QED BY <1>1, <2>1, AdministrationAssumption
<1>3. a \notin Refused(P)
  <2> SUFFICES ASSUME a \in Refused(P) PROVE FALSE
    OBVIOUS
  <2>1. PICK b \in Refused(P) : b.job < a.job
    BY <1>2
  <2> QED BY <1>2, <2>1 DEF Twice
<1>4. a.genut \in Workers
  BY <1>1, <1>2 DEF Assigns
<1> QED BY <1>1, <1>2, <1>3, <1>4 DEF Refused

LEMMA ClaimWriteKeeps == ASSUME AdminInv, ClaimWrite PROVE AdminInv' /\ Stays
<1>1. PICK P \in {plan, {a \in plan : Row(a.job)}} :
        /\ job' = [j \in Jobs |-> IF \E a \in Kept(P) : a.job = j
                     THEN [job[j] EXCEPT !.status = "running",
                                         !.genut = (CHOOSE a \in Kept(P) : a.job = j).genut]
                     ELSE job[j]]
        /\ lock' = [p \in Products |-> IF \E a \in Kept(P) : job[a.job].product = p
                      THEN CHOOSE a \in Kept(P) : job[a.job].product = p ELSE lock[p]]
  BY DEF ClaimWrite
<1> DEFINE K == Kept(P)
<1>2. /\ UNCHANGED <<requests, lost>> /\ plan' = {}
      /\ Rows /\ PlanApart /\ LocksStay /\ NothingSeen
  BY DEF ClaimWrite, AdminInv, history
<1>3. \A a \in K : a \in plan /\ a.job \in Jobs /\ a.genut \in Workers /\ Row(a.job)
  BY KeptIsRead DEF ClaimWrite
<1>4. /\ \A a, b \in K : a # b => a.job # b.job /\ job[a.job].product # job[b.job].product
      /\ \A a \in K : job[a.job].product \in Products
  BY <1>2, <1>3 DEF PlanApart, Rows
<1>5. /\ job' = [j \in Jobs |-> IF \E a \in K : a.job = j
                   THEN [job[j] EXCEPT !.status = "running",
                                       !.genut = (CHOOSE a \in K : a.job = j).genut]
                   ELSE job[j]]
      /\ lock' = [p \in Products |-> IF \E a \in K : job[a.job].product = p
                    THEN CHOOSE a \in K : job[a.job].product = p ELSE lock[p]]
  BY <1>1
<1> HIDE DEF K
<1>6. ASSUME NEW a \in K
      PROVE  /\ job'[a.job] = [status |-> "running", product |-> job[a.job].product,
                               genut |-> a.genut]
             /\ lock'[job[a.job].product] = a
  <2>1. (CHOOSE b \in K : b.job = a.job) = a
    BY <1>4
  <2>2. (CHOOSE b \in K : job[b.job].product = job[a.job].product) = a
    BY <1>4
  <2>3. job[a.job] = [status |-> job[a.job].status, product |-> job[a.job].product,
                      genut |-> job[a.job].genut]
    BY <1>2, <1>3 DEF Rows
  <2>4. job'[a.job] = [job[a.job] EXCEPT !.status = "running", !.genut = a.genut]
    BY <1>3, <1>5, <2>1
  <2>5. lock'[job[a.job].product] = a
    BY <1>4, <1>5, <2>2
  <2> QED BY <2>3, <2>4, <2>5
<1>7. \A j \in Jobs : (\A a \in K : a.job # j) => job'[j] = job[j]
  BY <1>5
<1>8. \A p \in Products : (\A a \in K : job[a.job].product # p) => lock'[p] = lock[p]
  BY <1>5
<1>9. \A j \in Jobs : job'[j].product = job[j].product /\ (Row(j)' => Row(j))
  <2> SUFFICES ASSUME NEW j \in Jobs
               PROVE  job'[j].product = job[j].product /\ (Row(j)' => Row(j))
    OBVIOUS
  <2>1. ASSUME NEW a \in K, a.job = j
        PROVE  job'[j].product = job[j].product /\ Row(j)
    <3>1. Row(j) /\ job'[j] = [status |-> "running", product |-> job[j].product, genut |-> a.genut]
      BY <1>3, <1>6, <2>1
    <3> QED BY <3>1
  <2>2. CASE \A a \in K : a.job # j
    BY <1>7, <2>2 DEF Row, Status
  <2> QED BY <2>1, <2>2
<1>10. Rows'
  <2> DEFINE J == [status : {"new", "gone", "queued", "running", "over"},
                   product : Products \cup {None}, genut : Workers \cup {None}]
             L == [job : Jobs \cup {None}, genut : Workers \cup {None}]
  <2>1. \A j \in Jobs : job'[j] \in J
    <3> SUFFICES ASSUME NEW j \in Jobs PROVE job'[j] \in J
      OBVIOUS
    <3>1. ASSUME NEW a \in K, a.job = j PROVE job'[j] \in J
      <4>1. job'[j] = [status |-> "running", product |-> job[j].product, genut |-> a.genut]
        BY <1>6, <3>1
      <4>2. job[j].product \in Products /\ a.genut \in Workers
        BY <1>3, <1>4, <3>1
      <4> QED BY <4>1, <4>2
    <3>2. CASE \A a \in K : a.job # j
      BY <1>2, <1>7, <3>2 DEF Rows
    <3> QED BY <3>1, <3>2
  <2>2. \A p \in Products : lock'[p] \in L
    <3> SUFFICES ASSUME NEW p \in Products PROVE lock'[p] \in L
      OBVIOUS
    <3>1. ASSUME NEW a \in K, job[a.job].product = p PROVE lock'[p] \in L
      <4>1. lock'[p] = a /\ a \in [job : Jobs, genut : Workers]
        BY <1>2, <1>3, <1>6, <3>1 DEF PlanApart
      <4> QED BY <4>1
    <3>2. CASE \A a \in K : job[a.job].product # p
      BY <1>2, <1>8, <3>2 DEF Rows
    <3> QED BY <3>1, <3>2
  <2>3. job' \in [Jobs -> J] /\ lock' \in [Products -> L]
    <3> HIDE DEF J, L
    <3> QED BY <1>5, <2>1, <2>2
  <2>4. \A j \in Jobs : (Row(j) => job[j].product \in Products)'
    BY <1>2, <1>9 DEF Rows
  <2> QED BY <2>3, <2>4 DEF Rows
<1>11. PlanApart'
  BY <1>2 DEF PlanApart
<1>12. LocksStay'
  <2> SUFFICES ASSUME NEW i \in Jobs, Running(i)', KindOf[i] = "genut", i \notin lost'
               PROVE  HoldsLock(i)'
    BY DEF LocksStay
  <2>1. CASE \E a \in K : a.job = i
    <3>1. PICK a \in K : a.job = i
      BY <2>1
    <3>2. /\ job'[i].product = job[i].product /\ job'[i].genut = a.genut
          /\ lock'[job[i].product] = [job |-> i, genut |-> a.genut]
      <4>1. /\ job'[i] = [status |-> "running", product |-> job[i].product, genut |-> a.genut]
            /\ lock'[job[i].product] = a
        BY <1>6, <3>1
      <4>2. a = [job |-> i, genut |-> a.genut]
        BY <1>2, <1>3, <3>1 DEF PlanApart
      <4> QED BY <4>1, <4>2
    <3> QED BY <3>2 DEF HoldsLock
  <2>2. CASE \A a \in K : a.job # i
    <3>1. job'[i] = job[i] /\ Running(i) /\ HoldsLock(i) /\ job[i].product \in Products
      BY <1>2, <1>7, <2>2 DEF Running, Status, LocksStay, Rows, Row
    <3>2. \A a \in K : job[a.job].product # job[i].product
      <4> SUFFICES ASSUME NEW a \in K, job[a.job].product = job[i].product PROVE FALSE
        OBVIOUS
      <4>1. lock[job[a.job].product] # NoLock
        <5>1. i # None
          BY AdministrationAssumption
        <5> QED BY <3>1, <5>1 DEF HoldsLock, NoLock
      <4> QED BY <4>1, KeptIsRead DEF K, ClaimWrite
    <3> QED BY <1>8, <3>1, <3>2 DEF HoldsLock
  <2> QED BY <2>1, <2>2
<1>13. Stays
  <2> SUFFICES ASSUME NEW j \in Jobs, Running(j), Status(j)' = "gone" PROVE FALSE
    BY DEF Stays
  <2>1. ASSUME NEW a \in K, a.job = j PROVE FALSE
    <3>1. job'[j] = [status |-> "running", product |-> job[j].product, genut |-> a.genut]
      BY <1>6, <2>1
    <3> QED BY <3>1 DEF Status
  <2>2. CASE \A a \in K : a.job # j
    BY <1>7, <2>2 DEF Running, Status
  <2> QED BY <2>1, <2>2
<1> QED BY <1>2, <1>10, <1>11, <1>12, <1>13 DEF AdminInv, NothingSeen

\* So do those of preparation jobs.
LEMMA ClaimPrepReadKeeps == ASSUME AdminInv, ClaimPrepRead PROVE AdminInv' /\ Stays
<1> DEFINE E == Eligible("prep")
<1>1. /\ UNCHANGED <<job, lock, requests, lost>>
      /\ plan' = {[job |-> j, genut |-> None] : j \in E}
  BY DEF ClaimPrepRead, tables, history
<1>2. \A j \in E : j \in Jobs /\ Status(j) = "queued" /\ KindOf[j] = "prep"
  BY DEF Eligible
<1>3. \A i, j \in E : i # j => job[i].product # job[j].product
  <2> SUFFICES ASSUME NEW i \in E, NEW j \in E, i # j PROVE Key(i) # Key(j)
    BY DEF Key
  <2>1. i \in Nat /\ j \in Nat
    BY <1>2, AdministrationAssumption
  <2>2. i < j \/ j < i
    BY <2>1
  <2> QED BY <2>2 DEF Eligible
<1> HIDE DEF E
<1>4. \A a \in plan' : a.job \in E /\ a.genut = None /\ a = [job |-> a.job, genut |-> None]
  BY <1>1
<1>5. \A j \in Jobs : Status(j)' = Status(j) /\ job'[j] = job[j]
  BY <1>1 DEF Status
<1>6. PlanApart'
  <2>1. plan' \subseteq [job : Jobs, genut : Workers \cup {None}]
    BY <1>2, <1>4
  <2>2. \A a \in plan' : KindOf[a.job] = "prep" /\ Status(a.job)' # "new"
    BY <1>2, <1>4, <1>5
  <2>3. \A a, b \in plan' : a # b => a.job # b.job
    BY <1>4
  <2>4. \A a, b \in plan' : a # b => job'[a.job].product # job'[b.job].product
    BY <1>2, <1>3, <1>4, <1>5, <2>3
  <2> QED BY <1>4, <2>1, <2>2, <2>3, <2>4 DEF PlanApart
<1> QED BY <1>1, <1>6 DEF AdminInv, NothingSeen, Rows, LocksStay, HoldsLock, Row, Running, Status,
                          Stays

LEMMA ClaimPrepWriteKeeps == ASSUME AdminInv, ClaimPrepWrite PROVE AdminInv' /\ Stays
<1>1. /\ UNCHANGED <<requests, lock, lost>> /\ plan' = {}
      /\ Rows /\ PlanApart /\ LocksStay /\ NothingSeen
  BY DEF ClaimPrepWrite, AdminInv, history
<1>2. PICK P \in SUBSET Jobs :
        /\ \A j \in P : Row(j) /\ KindOf[j] = "prep"
        /\ job' = [j \in Jobs |-> IF j \in P THEN [job[j] EXCEPT !.status = "running"] ELSE job[j]]
  <2> DEFINE Q == IF \A a \in plan : Row(a.job) THEN {a.job : a \in plan} ELSE {}
  <2>1. Q \in SUBSET Jobs /\ \A j \in Q : Row(j) /\ KindOf[j] = "prep"
    BY <1>1 DEF PlanApart, ClaimPrepWrite, Prepares
  <2>2. job' = [j \in Jobs |-> IF j \in Q THEN [job[j] EXCEPT !.status = "running"] ELSE job[j]]
    BY DEF ClaimPrepWrite
  <2> HIDE DEF Q
  <2> QED BY <2>1, <2>2
<1>3. \A j \in Jobs :
        /\ j \in P => job'[j] = [status |-> "running", product |-> job[j].product,
                                 genut |-> job[j].genut]
        /\ j \notin P => job'[j] = job[j]
  BY <1>1, <1>2 DEF Rows
<1>4. \A j \in Jobs : /\ job'[j].product = job[j].product
                      /\ Row(j)' => Row(j)
                      /\ Status(j)' \in {"new", "gone"} => Status(j)' = Status(j)
                      /\ job'[j] \in [status : {"new", "gone", "queued", "running", "over"},
                           product : Products \cup {None}, genut : Workers \cup {None}]
  BY <1>1, <1>2, <1>3 DEF Row, Status, Rows
<1>5. Rows'
  BY <1>1, <1>2, <1>4 DEF Rows
<1>6. PlanApart'
  BY <1>1 DEF PlanApart
<1>7. LocksStay'
  BY <1>1, <1>2, <1>3 DEF LocksStay, HoldsLock, Running, Status
<1>8. Stays
  BY <1>4 DEF Stays, Running
<1> QED BY <1>1, <1>5, <1>6, <1>7, <1>8 DEF AdminInv, NothingSeen

\* A job that is ended has a row and keeps its product.
LEMMA EndsKeeps ==
  ASSUME AdminInv, NEW j \in Jobs, Ends(j), Row(j), UNCHANGED lock \/ Unlocks(j),
         lost \subseteq lost', UNCHANGED <<plan, requests>>
  PROVE  AdminInv' /\ Stays
<1> DEFINE r == [status |-> "over", product |-> job[j].product, genut |-> None]
<1>1. job[j].product \in Products /\ job' = [job EXCEPT ![j] = r]
  BY DEF AdminInv, Rows, Ends
<1>2. r \in [status : {"queued", "over"}, product : Products, genut : Workers \cup {None}]
      /\ r.product = job[j].product
  BY <1>1
<1>3. NothingSeen'
  BY DEF AdminInv, NothingSeen
<1>4. \/ UNCHANGED lock
      \/ lock' = [p \in Products |-> IF lock[p].job = j THEN NoLock ELSE lock[p]]
  BY DEF Unlocks
<1> HIDE DEF r
<1> QED BY <1>1, <1>2, <1>3, <1>4, EndKeeps

LEMMA WorksKeeps == ASSUME AdminInv, NEW j \in Jobs, Works(j) PROVE AdminInv' /\ Stays
<1>1. CASE Start(j)
  <2>1. UNCHANGED <<lock, lost, plan, requests>>
    BY <1>1 DEF Start, history
  <2>2. UNCHANGED job \/ (Ends(j) /\ Row(j))
    BY <1>1 DEF Start
  <2>3. NothingSeen'
    BY <2>1 DEF AdminInv, NothingSeen
  <2> QED BY <2>1, <2>2, <2>3, QuietKeeps, EndsKeeps
<1>2. CASE FinishGenut(j)
  <2>1. Ends(j) /\ Row(j) /\ Unlocks(j) /\ lost \subseteq lost' /\ UNCHANGED <<plan, requests>>
    BY <1>2 DEF FinishGenut
  <2> QED BY <2>1, EndsKeeps
<1>3. CASE FinishPrep(j)
  BY <1>3, EndsKeeps DEF FinishPrep, history
<1>4. CASE FinishNothing(j)
  BY <1>4, QuietKeeps DEF FinishNothing, tables, history, AdminInv, NothingSeen
<1> QED BY <1>1, <1>2, <1>3, <1>4 DEF Works

LEMMA AdministersKeeps == ASSUME AdminInv, Administers PROVE AdminInv' /\ Stays
<1>1. UNCHANGED <<job, lock, lost, plan>>
  BY DEF Administers, CreateProduct, RenameProduct, CreateWorker, CountForProduct,
         CountForWorker, Submit, tables, history
<1>2. NothingSeen'
  <2>1. NothingSeen
    BY DEF AdminInv
  <2>2. \/ UNCHANGED requests
        \/ \E op, x : Asks(op, x, {}) /\ (op \in {"product", "submit"} => x \in Products)
    <3>1. ASSUME NEW p \in Products, CountForProduct(p)
          PROVE  Asks("product", p, {})
      <4>1. {j \in JobsOf(p) : Running(j)} = {}
        BY <3>1 DEF CountForProduct, Active, Running
      <4> QED BY <3>1, <4>1 DEF CountForProduct
    <3>2. ASSUME NEW w \in Workers, CountForWorker(w)
          PROVE  Asks("worker", w, {}) /\ "worker" \notin {"product", "submit"}
      <4>1. {j \in Jobs : Running(j) /\ job[j].genut = w} = {}
        BY <3>2 DEF CountForWorker
      <4> QED BY <3>2, <4>1 DEF CountForWorker
    <3> QED BY <3>1, <3>2 DEF Administers, CreateProduct, RenameProduct, CreateWorker, Submit
  <2> QED BY <2>1, <2>2 DEF NothingSeen, Asks
<1> QED BY <1>1, <1>2, QuietKeeps

LEMMA AdminStep == ASSUME AdminInv, [Next]_vars PROVE AdminInv' /\ Stays
<1>1. CASE Administers
  BY <1>1, AdministersKeeps
<1>2. ASSUME NEW r \in requests, Responds(r) PROVE AdminInv' /\ Stays
  BY <1>2, DeleteProductKeeps, DeleteWorkerKeeps, InsertKeeps DEF Responds
<1>3. CASE ClaimRead \/ ClaimWrite \/ ClaimPrepRead \/ ClaimPrepWrite
  BY <1>3, ClaimReadKeeps, ClaimWriteKeeps, ClaimPrepReadKeeps, ClaimPrepWriteKeeps
<1>4. ASSUME NEW j \in Jobs, Works(j) PROVE AdminInv' /\ Stays
  BY <1>4, WorksKeeps
<1>5. CASE UNCHANGED vars
  BY <1>5, QuietKeeps DEF vars, tables, history, AdminInv, NothingSeen
<1> QED BY <1>1, <1>2, <1>3, <1>4, <1>5 DEF Next

\* No request deletes the row of a running GENUT job that has its lock, although
\* delete_product has counted before the job was claimed.
THEOREM RunningStay == Spec => RunningRowsStay
<1>1. AdminInv /\ [Next]_vars => AdminInv' /\ Stays
  BY AdminStep
<1> QED BY <1>1, AdminStarts, PTL DEF Spec, RunningRowsStay, Stays

-----------------------------------------------------------------------------
(* The invariant of RunnersApart. *)

\* A thread at work, unless its job was lost, runs a running job with the worker of its row;
\* so does the thread of a preparation job from its claim on. Only running GENUT jobs have a
\* worker.
ThreadsAgree ==
  /\ thread \in [Jobs -> [pc : {"none", "due", "run"}, genut : Workers \cup {None},
                          mine : BOOLEAN]]
  /\ \A j \in Jobs :
       /\ Runs(j) /\ j \notin lost => Running(j) /\ thread[j].genut = job[j].genut
       /\ thread[j].pc # "none" /\ KindOf[j] = "prep" /\ j \notin lost => Running(j)
       /\ job[j].genut # None => Running(j) /\ KindOf[j] = "genut"

\* The worker of a running GENUT job is there and serves it.
Serves(j) == job[j].genut \in Workers /\ worker[job[j].genut] = [there |-> TRUE, current |-> j]
WorkersServe ==
  /\ worker \in [Workers -> [there : BOOLEAN, current : Jobs \cup {None}]]
  /\ \A j \in Jobs : Running(j) /\ KindOf[j] = "genut" /\ j \notin lost => Serves(j)

\* Running jobs have different keys.
KeysApart ==
  /\ name \in [Products -> Names \cup {None}]
  /\ \A j \in Jobs : Row(j) => name[job[j].product] # None
  /\ \A i, j \in Jobs : i # j /\ Running(i) /\ Running(j) /\ {i, j} \cap (lost \cup moved) = {}
       => Key(i) # Key(j)

\* What a claim has read is apart from what runs: jobs that do not run yet, of other keys,
\* and workers that serve no job.
PlanIsFree ==
  \A a \in plan :
    /\ ~Running(a.job)
    /\ \A j \in Jobs : Running(j) /\ j \notin lost =>
         /\ a.genut # None => job[j].genut # a.genut
         /\ Row(a.job) /\ {a.job, j} \cap moved = {} => Key(a.job) # Key(j)
    /\ \A b \in plan \ {a} :
         /\ a.genut # None => a.genut # b.genut
         /\ Row(a.job) /\ Row(b.job) /\ {a.job, b.job} \cap moved = {} => Key(a.job) # Key(b.job)

ApartInv == ThreadsAgree /\ WorkersServe /\ KeysApart /\ PlanIsFree

-----------------------------------------------------------------------------

LEMMA ApartStarts == Init => ApartInv
<1> SUFFICES ASSUME Init PROVE ApartInv
  OBVIOUS
<1>1. \A j \in Jobs : ~Runs(j) /\ ~Running(j) /\ ~Row(j) /\ job[j].genut = None
                      /\ thread[j].pc = "none"
  BY DEF Init, Runs, Running, Row, Status, NoJob, NoThread
<1>2. ThreadsAgree
  BY <1>1 DEF Init, ThreadsAgree, NoThread
<1>3. WorkersServe
  BY <1>1 DEF Init, WorkersServe, IdleWorker
<1>4. KeysApart
  BY <1>1, AdministrationAssumption DEF Init, KeysApart
<1> QED BY <1>2, <1>3, <1>4 DEF Init, ApartInv, PlanIsFree

\* Steps that leave jobs, workers, threads and claims alone, and the keys of running and
\* claimed jobs too, unless these are moved.
LEMMA KeysKeepApart ==
  ASSUME ApartInv, UNCHANGED <<job, worker, thread, plan, lost>>, moved \subseteq moved',
         name' \in [Products -> Names \cup {None}],
         \A j \in Jobs : Row(j) => name'[job[j].product] # None,
         \A j \in Jobs : /\ Row(j) /\ j \notin moved'
                         /\ Running(j) \/ \E a \in plan : a.job = j
                         => Key(j)' = Key(j),
         plan \subseteq [job : Jobs, genut : Workers \cup {None}]
  PROVE  ApartInv'
<1>1. \A j \in Jobs : /\ Running(j)' = Running(j) /\ Row(j)' = Row(j) /\ Runs(j)' = Runs(j)
                      /\ Serves(j)' = Serves(j)
                      /\ Running(j) => Row(j)
  BY DEF Running, Row, Runs, Status, Serves
<1>2. ThreadsAgree' /\ WorkersServe'
  BY <1>1 DEF ApartInv, ThreadsAgree, WorkersServe
<1>3. KeysApart'
  BY <1>1 DEF ApartInv, KeysApart
<1>4. PlanIsFree'
  BY <1>1 DEF ApartInv, PlanIsFree
<1> QED BY <1>2, <1>3, <1>4 DEF ApartInv

\* Steps after which the jobs that run, those lost apart, are as they were, with their worker
\* and their key; and so are those that a claim has read and that still have a row.
LEMMA RestKeepsApart ==
  ASSUME ApartInv, ThreadsAgree', UNCHANGED <<plan, moved>>,
         plan \subseteq [job : Jobs, genut : Workers \cup {None}],
         name' \in [Products -> Names \cup {None}],
         worker' \in [Workers -> [there : BOOLEAN, current : Jobs \cup {None}]],
         \A j \in Jobs : Row(j)' => name'[job'[j].product] # None,
         \A j \in Jobs : Running(j)' => Running(j),
         \A j \in Jobs : Running(j)' /\ j \notin lost'
           => /\ j \notin lost /\ job'[j] = job[j] /\ Key(j)' = Key(j)
              /\ KindOf[j] = "genut" => worker'[job[j].genut] = worker[job[j].genut],
         \A a \in plan : Row(a.job)' => Row(a.job) /\ Key(a.job)' = Key(a.job)
  PROVE  ApartInv'
<1>1. WorkersServe'
  BY DEF ApartInv, WorkersServe, Serves
<1>2. KeysApart'
  BY DEF ApartInv, KeysApart
<1>3. PlanIsFree'
  BY DEF ApartInv, PlanIsFree
<1> QED BY <1>1, <1>2, <1>3 DEF ApartInv

LEMMA ServedApart ==
  ASSUME ApartInv, NEW j \in Jobs, Running(j), KindOf[j] = "genut", j \notin lost
  PROVE  /\ job[j].genut \in Workers /\ worker[job[j].genut].there
         /\ worker[job[j].genut].current = j /\ j # None
<1>1. Serves(j)
  BY DEF ApartInv, WorkersServe
<1> QED BY <1>1, AdministrationAssumption DEF Serves

\* A new row takes an id that no row has.
LEMMA NextIdIsNew == ASSUME NEW used, NEW i \in Nat, NextId(i, used) PROVE i \notin used
BY DEF NextId

LEMMA AdministersApart ==
  ASSUME AdminInv, ApartInv, Administers
  PROVE  ApartInv'
<1>1. /\ plan \subseteq [job : Jobs, genut : Workers \cup {None}] /\ Products \subseteq Nat /\ Workers \subseteq Nat
      /\ name \in [Products -> Names \cup {None}]
      /\ \A j \in Jobs : Row(j) => name[job[j].product] # None /\ job[j].product \in Products
  BY AdministrationAssumption DEF AdminInv, PlanApart, ApartInv, KeysApart, Rows
<1>2. ASSUME NEW p \in Products, NEW n \in Names, CreateProduct(p, n) PROVE ApartInv'
  <2>1. name[p] = None
    <3>1. p \notin {k \in Products : name[k] # None}
      BY <1>1, <1>2, NextIdIsNew DEF CreateProduct
    <3> QED BY <3>1
  <2>2. name' = [name EXCEPT ![p] = n] /\ n # None
        /\ UNCHANGED <<job, worker, thread, plan, lost, moved>>
    BY <1>2, AdministrationAssumption DEF CreateProduct, history
  <2>3. \A j \in Jobs : Row(j) => name'[job[j].product] = name[job[j].product]
    BY <1>1, <2>1, <2>2
  <2>4. \A j \in Jobs : Row(j) => Key(j)' = Key(j)
    BY <2>2, <2>3 DEF Key
  <2> QED BY <1>1, <2>2, <2>3, <2>4, KeysKeepApart
<1>3. ASSUME NEW p \in Products, NEW n \in Names, RenameProduct(p, n) PROVE ApartInv'
  <2>1. /\ name' = [name EXCEPT ![p] = n] /\ n # None
        /\ UNCHANGED <<job, worker, thread, plan, lost>>
        /\ moved' = moved \cup {j \in JobsOf(p) : Running(j) \/ \E a \in plan : a.job = j}
    BY <1>3, AdministrationAssumption DEF RenameProduct
  <2>2. \A j \in Jobs : Row(j) => name'[job[j].product] # None
    BY <1>1, <2>1
  <2>3. ASSUME NEW j \in Jobs, Row(j), j \notin moved',
               Running(j) \/ \E a \in plan : a.job = j
        PROVE  Key(j)' = Key(j)
    <3>1. job[j].product # p
      BY <2>1, <2>3 DEF JobsOf
    <3> QED BY <1>1, <2>1, <2>3, <3>1 DEF Key
  <2> QED BY <1>1, <2>1, <2>2, <2>3, KeysKeepApart
<1>4. ASSUME NEW w \in Workers, CreateWorker(w) PROVE ApartInv'
  <2>1. ~worker[w].there
    <3>1. w \notin {k \in Workers : worker[k].there}
      BY <1>1, <1>4, NextIdIsNew DEF CreateWorker
    <3> QED BY <3>1
  <2>2. /\ worker' = [worker EXCEPT ![w] = IdleWorker]
        /\ UNCHANGED <<name, job, plan, thread, lost, moved>>
    BY <1>4 DEF CreateWorker, history
  <2>3. ThreadsAgree'
    BY <2>2 DEF ApartInv, ThreadsAgree, Runs, Running, Status
  <2>4. worker' \in [Workers -> [there : BOOLEAN, current : Jobs \cup {None}]]
    BY <2>2 DEF ApartInv, WorkersServe, IdleWorker
  <2>5. \A j \in Jobs : Running(j) /\ j \notin lost /\ KindOf[j] = "genut"
          => worker'[job[j].genut] = worker[job[j].genut]
    BY <2>1, <2>2, ServedApart DEF ApartInv, WorkersServe
  <2>6. \A j : Row(j)' = Row(j) /\ Running(j)' = Running(j) /\ Key(j)' = Key(j)
    BY <2>2 DEF Row, Running, Status, Key
  <2> QED BY <1>1, <2>2, <2>3, <2>4, <2>5, <2>6, RestKeepsApart
<1>5. CASE \/ \E p \in Products : CountForProduct(p) \/ Submit(p)
           \/ \E w \in Workers : CountForWorker(w)
  <2>1. UNCHANGED <<name, job, worker, thread, plan, lost, moved>>
    BY <1>5 DEF CountForProduct, Submit, CountForWorker, tables, history
  <2>2. \A j \in Jobs : Key(j)' = Key(j)
    BY <2>1 DEF Key
  <2> QED BY <1>1, <2>1, <2>2, KeysKeepApart
<1> QED BY <1>2, <1>3, <1>4, <1>5 DEF Administers

LEMMA DeleteProductApart ==
  ASSUME AdminInv, ApartInv, NEW r \in requests, DeleteProduct(r)
  PROVE  ApartInv'
<1> DEFINE p == r.target
<1>1. /\ plan \subseteq [job : Jobs, genut : Workers \cup {None}] /\ r.saw = {} /\ p \in Products
      /\ name \in [Products -> Names \cup {None}]
      /\ \A j \in Jobs : Row(j) => name[job[j].product] # None /\ job[j].product \in Products
      /\ UNCHANGED <<worker, plan, thread, moved>>
  BY DEF AdminInv, PlanApart, ApartInv, KeysApart, Rows, NothingSeen, DeleteProduct
<1>2. CASE UNCHANGED <<name, job, lost>>
  <2>1. \A j \in Jobs : Key(j)' = Key(j)
    BY <1>2 DEF Key
  <2> QED BY <1>1, <1>2, <2>1, KeysKeepApart
<1>3. CASE ~ UNCHANGED <<name, job, lost>>
  <2>1. /\ job' = [j \in Jobs |-> IF j \in JobsOf(p) THEN Gone ELSE job[j]]
        /\ name' = [name EXCEPT ![p] = None]
        /\ lost' = lost \cup {j \in JobsOf(p) : Running(j)}
    BY <1>1, <1>3 DEF DeleteProduct, Deletes
  <2>2. ASSUME NEW j \in Jobs
        PROVE  /\ j \in JobsOf(p) => ~Row(j)' /\ ~Running(j)' /\ job'[j].genut = None
               /\ j \notin JobsOf(p) => /\ job'[j] = job[j]
                                        /\ Row(j)' = Row(j) /\ Running(j)' = Running(j)
    BY <2>1 DEF Row, Running, Status, Gone
  <2>3. \A j \in Jobs : Row(j)' => /\ Row(j) /\ job'[j] = job[j] /\ Key(j)' = Key(j)
                                   /\ name'[job'[j].product] # None
    <3> SUFFICES ASSUME NEW j \in Jobs, Row(j)'
                 PROVE  /\ Row(j) /\ job'[j] = job[j] /\ Key(j)' = Key(j)
                        /\ name'[job'[j].product] # None
      OBVIOUS
    <3>1. j \notin JobsOf(p) /\ Row(j) /\ job'[j] = job[j] /\ job[j].product # p
      BY <2>2 DEF JobsOf
    <3>2. name'[job[j].product] = name[job[j].product]
      BY <1>1, <2>1, <3>1
    <3> QED BY <1>1, <3>1, <3>2 DEF Key
  <2>4. name' \in [Products -> Names \cup {None}]
    BY <1>1, <2>1
  <2>5. \A j \in Jobs : Running(j)' => Running(j) /\ Row(j)'
    BY <2>2 DEF Running, Row, Status
  <2>6. \A j \in Jobs : Running(j) /\ j \notin lost' => Running(j)' /\ job'[j] = job[j]
    BY <2>1, <2>2
  <2>7. ThreadsAgree'
    <3>1. thread \in [Jobs -> [pc : {"none", "due", "run"}, genut : Workers \cup {None},
                               mine : BOOLEAN]]
      BY DEF ApartInv, ThreadsAgree
    <3>2. lost \subseteq lost' /\ \A j : Runs(j)' = Runs(j)
      BY <1>1, <2>1 DEF Runs
    <3> QED BY <1>1, <2>2, <2>6, <3>1, <3>2 DEF ApartInv, ThreadsAgree
  <2>8. worker' \in [Workers -> [there : BOOLEAN, current : Jobs \cup {None}]]
    BY <1>1 DEF ApartInv, WorkersServe
  <2>9. \A a \in plan : a.job \in Jobs
    BY <1>1
  <2> QED BY <1>1, <2>1, <2>3, <2>4, <2>5, <2>7, <2>8, <2>9, RestKeepsApart
<1> QED BY <1>2, <1>3

LEMMA DeleteWorkerApart ==
  ASSUME AdminInv, ApartInv, NEW r \in requests, DeleteWorker(r)
  PROVE  ApartInv'
<1> DEFINE w == r.target
<1>1. /\ plan \subseteq [job : Jobs, genut : Workers \cup {None}] /\ r.saw = {}
      /\ UNCHANGED <<name, plan, thread, moved>>
      /\ job' = [j \in Jobs |-> IF job[j].genut = w THEN [job[j] EXCEPT !.genut = None] ELSE job[j]]
      /\ worker' = [worker EXCEPT ![w] = NoWorker]
      /\ lost' = lost \cup {j \in Jobs : Running(j) /\ job[j].genut = w}
  BY DEF AdminInv, PlanApart, NothingSeen, DeleteWorker
<1>2. ASSUME NEW j \in Jobs
      PROVE  /\ Status(j)' = Status(j) /\ job'[j].product = job[j].product
             /\ job[j].genut # w => job'[j] = job[j]
             /\ job'[j].genut # None => job'[j] = job[j]
  <2>1. job[j] \in [status : {"new", "gone", "queued", "running", "over"},
                    product : Products \cup {None}, genut : Workers \cup {None}]
    BY DEF AdminInv, Rows
  <2> QED BY <1>1, <2>1 DEF Status
<1>3. \A j \in Jobs : Row(j)' = Row(j) /\ Running(j)' = Running(j) /\ Key(j)' = Key(j)
  BY <1>1, <1>2 DEF Row, Running, Key, Status
<1>4. \A j \in Jobs : Running(j) /\ j \notin lost' => j \notin lost /\ job'[j] = job[j] /\ job[j].genut # w
  BY <1>1, <1>2
<1>5. \A j \in Jobs : Row(j)' => name'[job'[j].product] # None
  BY <1>1, <1>2, <1>3 DEF ApartInv, KeysApart
<1>6. ThreadsAgree'
  <2>1. lost \subseteq lost' /\ \A j : Runs(j)' = Runs(j)
    BY <1>1 DEF Runs
  <2> QED BY <1>1, <1>2, <1>3, <1>4, <2>1 DEF ApartInv, ThreadsAgree
<1>7. worker' \in [Workers -> [there : BOOLEAN, current : Jobs \cup {None}]]
  BY <1>1 DEF ApartInv, WorkersServe, NoWorker
<1>8. \A j \in Jobs : Running(j)' /\ j \notin lost' /\ KindOf[j] = "genut"
        => worker'[job[j].genut] = worker[job[j].genut]
  BY <1>1, <1>3, <1>4, ServedApart DEF ApartInv, WorkersServe
<1>9. name' \in [Products -> Names \cup {None}] /\ \A a \in plan : a.job \in Jobs
  BY <1>1 DEF ApartInv, KeysApart
<1> QED BY <1>1, <1>3, <1>4, <1>5, <1>6, <1>7, <1>8, <1>9, RestKeepsApart

LEMMA InsertApart ==
  ASSUME AdminInv, ApartInv, NEW r \in requests, Insert(r)
  PROVE  ApartInv'
<1>1. /\ plan \subseteq [job : Jobs, genut : Workers \cup {None}] /\ r.target \in Products
      /\ UNCHANGED <<name, worker, plan, thread, lost, moved>>
      /\ \A a \in plan : Status(a.job) # "new"
      /\ name \in [Products -> Names \cup {None}]
      /\ \A j \in Jobs : Row(j) => name[job[j].product] # None
  BY DEF AdminInv, PlanApart, NothingSeen, Insert, history, ApartInv, KeysApart
<1>2. CASE UNCHANGED job
  <2>1. \A j \in Jobs : Key(j)' = Key(j)
    BY <1>1, <1>2 DEF Key
  <2> QED BY <1>1, <1>2, <2>1, KeysKeepApart
<1>3. CASE ~ UNCHANGED job
  <2>1. PICK k \in Jobs :
          /\ Status(k) = "new" /\ name[r.target] # None
          /\ job' = [job EXCEPT ![k] = [NoJob EXCEPT !.status = "queued", !.product = r.target]]
    BY <1>3 DEF Insert
  <2>2. /\ job'[k] = [status |-> "queued", product |-> r.target, genut |-> None]
        /\ \A j \in Jobs \ {k} : job'[j] = job[j]
    BY <2>1 DEF AdminInv, Rows, NoJob
  <2>3. \A j \in Jobs : /\ Running(j)' = Running(j)
                        /\ Running(j) => j # k
                        /\ j # k => Row(j)' = Row(j) /\ Key(j)' = Key(j)
    BY <1>1, <2>1, <2>2 DEF Running, Row, Status, Key
  <2>4. \A j \in Jobs : Row(j)' => name'[job'[j].product] # None
    BY <1>1, <2>1, <2>2, <2>3
  <2>5. ThreadsAgree'
    <3>1. \A j : Runs(j)' = Runs(j)
      BY <1>1 DEF Runs
    <3> QED BY <1>1, <2>2, <2>3, <3>1 DEF ApartInv, ThreadsAgree
  <2>6. worker' \in [Workers -> [there : BOOLEAN, current : Jobs \cup {None}]]
    BY <1>1 DEF ApartInv, WorkersServe
  <2>7. \A a \in plan : a.job \in Jobs /\ a.job # k
    BY <1>1, <2>1
  <2> QED BY <1>1, <2>2, <2>3, <2>4, <2>5, <2>6, <2>7, RestKeepsApart
<1> QED BY <1>2, <1>3

-----------------------------------------------------------------------------

\* Jobs that run have names that a claim does not take, unless they are lost.
LEMMA RunnersAreBusy ==
  ASSUME AdminInv, ApartInv, NEW j \in Jobs, Running(j), j \notin lost
  PROVE  Key(j) \in BusyNames
<1>1. job[j].product \in Products
  BY DEF AdminInv, Rows, Row, Running
<1>2. CASE KindOf[j] = "genut"
  <2>1. lock[job[j].product] = [job |-> j, genut |-> job[j].genut]
    BY <1>2 DEF AdminInv, LocksStay, HoldsLock
  <2>2. lock[job[j].product] # NoLock
    BY <2>1, AdministrationAssumption DEF NoLock
  <2> QED BY <1>1, <2>2 DEF BusyNames, Key
<1>3. CASE KindOf[j] = "prep"
  BY <1>3 DEF BusyNames
<1> QED BY <1>2, <1>3, AdministrationAssumption

\* Of eligible jobs no two have a key, and no runner has one of theirs.
LEMMA EligibleApart ==
  ASSUME NEW kind, NEW i \in Eligible(kind), NEW j \in Eligible(kind), i # j
  PROVE  Key(i) # Key(j)
<1>1. i \in Nat /\ j \in Nat
  BY AdministrationAssumption DEF Eligible
<1>2. i < j \/ j < i
  BY <1>1
<1> QED BY <1>2 DEF Eligible

LEMMA ClaimReadApart == ASSUME AdminInv, ApartInv, ClaimRead PROVE ApartInv'
<1> DEFINE idle == {w \in Workers : worker[w] = IdleWorker}
<1>1. PICK S \in SUBSET Eligible("genut"), f \in [Jobs -> idle] :
        /\ \A i, j \in S : f[i] = f[j] => i = j
        /\ plan' = {[job |-> j, genut |-> f[j]] : j \in S}
  BY DEF ClaimRead
<1>2. UNCHANGED <<name, job, worker, thread, lost, moved>>
  BY DEF ClaimRead, tables, history
<1>3. \A j \in Jobs : /\ Running(j)' = Running(j) /\ Row(j)' = Row(j) /\ Runs(j)' = Runs(j)
                      /\ Serves(j)' = Serves(j) /\ Key(j)' = Key(j)
  BY <1>2 DEF Running, Row, Runs, Status, Serves, Key
<1>4. ThreadsAgree' /\ WorkersServe' /\ KeysApart'
  BY <1>2, <1>3 DEF ApartInv, ThreadsAgree, WorkersServe, KeysApart
<1>5. \A j \in S : j \in Jobs /\ ~Running(j) /\ Key(j) \notin BusyNames
  BY DEF Eligible, Running
<1>6. \A a \in plan' : a.job \in S /\ a.genut = f[a.job] /\ a.genut \in idle
                       /\ a = [job |-> a.job, genut |-> f[a.job]]
  BY <1>1, <1>5
<1>7. ASSUME NEW j \in Jobs, Running(j), j \notin lost
      PROVE  job[j].genut \notin idle
  <2>1. CASE KindOf[j] = "genut"
    <3>1. worker[job[j].genut].current = j /\ j # None
      BY <1>7, <2>1, ServedApart
    <3> QED BY <3>1 DEF IdleWorker
  <2>2. CASE KindOf[j] = "prep"
    <3>1. job[j].genut = None
      BY <2>2 DEF ApartInv, ThreadsAgree
    <3> QED BY <3>1, AdministrationAssumption
  <2> QED BY <2>1, <2>2, AdministrationAssumption
<1>8. PlanIsFree'
  <2> SUFFICES ASSUME NEW a \in plan'
               PROVE  /\ ~Running(a.job)'
                      /\ \A j \in Jobs : Running(j)' /\ j \notin lost' =>
                           job'[j].genut # a.genut /\ Key(a.job)' # Key(j)'
                      /\ \A b \in plan' \ {a} : a.genut # b.genut /\ Key(a.job)' # Key(b.job)'
    BY DEF PlanIsFree
  <2>1. a.job \in S /\ a.job \in Jobs /\ ~Running(a.job)'
    BY <1>3, <1>5, <1>6
  <2>2. ASSUME NEW j \in Jobs, Running(j)', j \notin lost'
        PROVE  job'[j].genut # a.genut /\ Key(a.job)' # Key(j)'
    <3>1. Running(j) /\ j \notin lost
      BY <1>2, <1>3, <2>2
    <3>2. Key(j) \in BusyNames /\ job[j].genut \notin idle
      BY <1>7, <3>1, RunnersAreBusy
    <3> HIDE DEF idle
    <3> QED BY <1>2, <1>3, <1>5, <1>6, <2>1, <3>2
  <2>3. ASSUME NEW b \in plan' \ {a}
        PROVE  a.genut # b.genut /\ Key(a.job)' # Key(b.job)'
    <3>1. b.job \in S /\ b.job \in Jobs /\ a.job # b.job
      BY <1>5, <1>6, <2>3
    <3>2. Key(a.job) # Key(b.job)
      BY <2>1, <3>1, EligibleApart
    <3>3. a.genut # b.genut
      BY <1>1, <1>6, <2>1, <3>1
    <3> QED BY <1>3, <2>1, <3>1, <3>2, <3>3
  <2> QED BY <2>1, <2>2, <2>3
<1> QED BY <1>4, <1>8 DEF ApartInv

LEMMA ClaimPrepReadApart == ASSUME AdminInv, ApartInv, ClaimPrepRead PROVE ApartInv'
<1> DEFINE E == Eligible("prep")
<1>1. /\ UNCHANGED <<name, job, worker, thread, lost, moved>>
      /\ plan' = {[job |-> j, genut |-> None] : j \in E}
  BY DEF ClaimPrepRead, tables, history
<1>2. \A j \in Jobs : /\ Running(j)' = Running(j) /\ Row(j)' = Row(j) /\ Runs(j)' = Runs(j)
                      /\ Serves(j)' = Serves(j) /\ Key(j)' = Key(j)
  BY <1>1 DEF Running, Row, Runs, Status, Serves, Key
<1>3. ThreadsAgree' /\ WorkersServe' /\ KeysApart'
  BY <1>1, <1>2 DEF ApartInv, ThreadsAgree, WorkersServe, KeysApart
<1>4. \A j \in E : j \in Jobs /\ ~Running(j) /\ Key(j) \notin BusyNames
  BY DEF Eligible, Running
<1>5. \A i, j \in E : i # j => Key(i) # Key(j)
  BY EligibleApart
<1> HIDE DEF E
<1>6. \A a \in plan' : a.job \in E /\ a.genut = None /\ a = [job |-> a.job, genut |-> None]
  BY <1>1
<1>7. PlanIsFree'
  <2>1. ASSUME NEW a \in plan'
        PROVE  /\ a.genut = None /\ ~Running(a.job)'
               /\ \A j \in Jobs : Running(j)' /\ j \notin lost' => Key(a.job)' # Key(j)'
               /\ \A b \in plan' \ {a} : Key(a.job)' # Key(b.job)'
    <3>1. a.job \in E /\ a.job \in Jobs
      BY <1>4, <1>6
    <3>2. \A j \in Jobs : Running(j) /\ j \notin lost => Key(a.job) # Key(j)
      BY <1>4, <3>1, RunnersAreBusy
    <3>3. \A b \in plan' \ {a} : b.job \in E /\ b.job \in Jobs /\ b.job # a.job
      BY <1>4, <1>6
    <3> QED BY <1>1, <1>2, <1>4, <1>5, <1>6, <3>1, <3>2, <3>3
  <2> QED BY <2>1 DEF PlanIsFree
<1> QED BY <1>3, <1>7 DEF ApartInv

LEMMA ClaimPrepWriteApart == ASSUME AdminInv, ApartInv, ClaimPrepWrite PROVE ApartInv'
<1>1. UNCHANGED <<name, worker, lost, moved>> /\ plan' = {}
  BY DEF ClaimPrepWrite, history
<1>2. PICK P \in SUBSET Jobs :
        /\ \A j \in P : Row(j) /\ \E a \in plan : a.job = j /\ a.genut = None
        /\ job' = [j \in Jobs |-> IF j \in P THEN [job[j] EXCEPT !.status = "running"] ELSE job[j]]
        /\ thread' = [j \in Jobs |-> IF j \in P THEN [thread[j] EXCEPT !.pc = "due"]
                                     ELSE thread[j]]
  <2> DEFINE Q == IF \A a \in plan : Row(a.job) THEN {a.job : a \in plan} ELSE {}
  <2>1. Q \in SUBSET Jobs /\ \A j \in Q : Row(j) /\ \E a \in plan : a.job = j /\ a.genut = None
    BY DEF AdminInv, PlanApart, ClaimPrepWrite, Prepares
  <2>2. /\ job' = [j \in Jobs |-> IF j \in Q THEN [job[j] EXCEPT !.status = "running"] ELSE job[j]]
        /\ thread' = [j \in Jobs |-> IF j \in Q THEN [thread[j] EXCEPT !.pc = "due"]
                                     ELSE thread[j]]
    BY DEF ClaimPrepWrite
  <2> HIDE DEF Q
  <2> QED BY <2>1, <2>2
<1>3. ASSUME NEW j \in P
      PROVE  /\ j \in Jobs /\ KindOf[j] = "prep" /\ Row(j) /\ ~Running(j)
             /\ job'[j] = [status |-> "running", product |-> job[j].product, genut |-> job[j].genut]
             /\ thread'[j] = [pc |-> "due", genut |-> thread[j].genut, mine |-> thread[j].mine]
  <2>1. j \in Jobs /\ KindOf[j] = "prep" /\ Row(j) /\ ~Running(j)
    BY <1>2 DEF AdminInv, PlanApart, ApartInv, PlanIsFree
  <2>2. /\ job[j] \in [status : {"new", "gone", "queued", "running", "over"},
                       product : Products \cup {None}, genut : Workers \cup {None}]
        /\ thread[j] \in [pc : {"none", "due", "run"}, genut : Workers \cup {None}, mine : BOOLEAN]
    BY <2>1 DEF AdminInv, Rows, ApartInv, ThreadsAgree
  <2>3. /\ job'[j] = [job[j] EXCEPT !.status = "running"]
        /\ thread'[j] = [thread[j] EXCEPT !.pc = "due"]
    BY <1>2, <2>1
  <2> QED BY <2>1, <2>2, <2>3
<1>4. \A j \in Jobs \ P : job'[j] = job[j] /\ thread'[j] = thread[j]
  BY <1>2
<1>5. \A j \in Jobs : /\ job'[j].product = job[j].product /\ job'[j].genut = job[j].genut
                      /\ Key(j)' = Key(j)
                      /\ Row(j)' <=> Row(j)
                      /\ Running(j)' <=> Running(j) \/ j \in P
  <2>1. ASSUME NEW j \in P
        PROVE  /\ job'[j].product = job[j].product /\ job'[j].genut = job[j].genut
               /\ Row(j)' /\ Row(j) /\ Running(j)'
    <3>1. /\ job'[j] = [status |-> "running", product |-> job[j].product, genut |-> job[j].genut]
          /\ Row(j)
      BY <1>3
    <3> QED BY <3>1 DEF Row, Running, Status
  <2>2. ASSUME NEW j \in Jobs \ P
        PROVE  /\ job'[j].product = job[j].product /\ job'[j].genut = job[j].genut
               /\ Row(j)' <=> Row(j)
               /\ Running(j)' <=> Running(j)
    BY <1>4 DEF Row, Running, Status
  <2> QED BY <1>1, <2>1, <2>2 DEF Key
<1>6. ThreadsAgree'
  <2>1. thread' \in [Jobs -> [pc : {"none", "due", "run"}, genut : Workers \cup {None},
                              mine : BOOLEAN]]
    BY <1>2 DEF ApartInv, ThreadsAgree
  <2>2. \A j \in P : ~Runs(j)' /\ job[j].genut = None
    <3> SUFFICES ASSUME NEW j \in P PROVE ~Runs(j)' /\ job[j].genut = None
      OBVIOUS
    <3>1. thread'[j] = [pc |-> "due", genut |-> thread[j].genut, mine |-> thread[j].mine]
      BY <1>3
    <3>2. j \in Jobs /\ ~Running(j)
      BY <1>3
    <3> QED BY <3>1, <3>2 DEF Runs, ApartInv, ThreadsAgree
  <2>3. \A j \in Jobs \ P : Runs(j)' = Runs(j)
    BY <1>4 DEF Runs
  <2> QED BY <1>1, <1>3, <1>4, <1>5, <2>1, <2>2, <2>3 DEF ApartInv, ThreadsAgree
<1>7. WorkersServe'
  BY <1>1, <1>3, <1>4, <1>5 DEF ApartInv, WorkersServe, Serves
<1>8. KeysApart'
  <2>1. ASSUME NEW i \in P, NEW j \in Jobs, i # j, Running(j)', {i, j} \cap (lost \cup moved) = {}
        PROVE  Key(i) # Key(j)
    <3>1. PICK a \in plan : a.job = i
      BY <1>2, <2>1
    <3>2. CASE j \in P
      <4>1. PICK b \in plan : b.job = j
        BY <1>2, <3>2
      <4>2. b \in plan \ {a} /\ Row(i) /\ Row(j)
        BY <1>3, <2>1, <3>1, <3>2, <4>1
      <4>3. {a.job, b.job} \cap moved = {}
        BY <2>1, <3>1, <4>1
      <4>4. Row(a.job) /\ Row(b.job) => Key(a.job) # Key(b.job)
        BY <4>2, <4>3 DEF ApartInv, PlanIsFree
      <4> QED BY <3>1, <4>1, <4>2, <4>4
    <3>3. CASE Running(j)
      <4>1. a \in plan /\ Row(a.job) /\ j \notin lost /\ {a.job, j} \cap moved = {}
        BY <1>3, <2>1, <3>1
      <4>2. Row(a.job) /\ {a.job, j} \cap moved = {} => Key(a.job) # Key(j)
        BY <2>1, <3>3, <4>1 DEF ApartInv, PlanIsFree
      <4> QED BY <3>1, <4>1, <4>2
    <3> QED BY <1>5, <2>1, <3>2, <3>3
  <2>2. ASSUME NEW i \in Jobs, NEW j \in Jobs, i # j, Running(i)', Running(j)',
               {i, j} \cap (lost \cup moved) = {}
        PROVE  Key(i) # Key(j)
    <3>1. CASE i \in P
      BY <2>1, <2>2, <3>1
    <3>2. CASE j \in P
      BY <2>1, <2>2, <3>2
    <3>3. CASE Running(i) /\ Running(j)
      BY <2>2, <3>3 DEF ApartInv, KeysApart
    <3> QED BY <1>5, <2>2, <3>1, <3>2, <3>3
  <2>3. name' \in [Products -> Names \cup {None}]
        /\ \A j \in Jobs : Row(j)' => name'[job'[j].product] # None
    BY <1>1, <1>5 DEF ApartInv, KeysApart
  <2> QED BY <1>1, <1>5, <2>2, <2>3 DEF KeysApart
<1> QED BY <1>1, <1>6, <1>7, <1>8 DEF ApartInv, PlanIsFree

LEMMA ClaimWriteApart == ASSUME AdminInv, ApartInv, ClaimWrite PROVE ApartInv'
<1>1. PICK P \in {plan, {a \in plan : Row(a.job)}} :
        \E due \in SUBSET plan :
        /\ job' = [j \in Jobs |-> IF \E a \in Kept(P) : a.job = j
                     THEN [job[j] EXCEPT !.status = "running",
                                         !.genut = (CHOOSE a \in Kept(P) : a.job = j).genut]
                     ELSE job[j]]
        /\ worker' = [w \in Workers |-> IF \E a \in Kept(P) : a.genut = w
                       THEN [there |-> TRUE, current |-> (CHOOSE a \in Kept(P) : a.genut = w).job]
                       ELSE worker[w]]
        /\ thread' = [j \in Jobs |-> IF \E a \in due : a.job = j
                       THEN [thread[j] EXCEPT !.pc = "due"] ELSE thread[j]]
  <2>1. PICK P \in {plan, {a \in plan : Row(a.job)}} :
        /\ job' = [j \in Jobs |-> IF \E a \in Kept(P) : a.job = j
                     THEN [job[j] EXCEPT !.status = "running",
                                         !.genut = (CHOOSE a \in Kept(P) : a.job = j).genut]
                     ELSE job[j]]
        /\ worker' = [w \in Workers |-> IF \E a \in Kept(P) : a.genut = w
                       THEN [there |-> TRUE, current |-> (CHOOSE a \in Kept(P) : a.genut = w).job]
                       ELSE worker[w]]
        /\ thread' = [j \in Jobs |->
                       IF \E a \in (IF Twice(P) THEN {} ELSE P \ Refused(P)) : a.job = j
                       THEN [thread[j] EXCEPT !.pc = "due"] ELSE thread[j]]
    BY DEF ClaimWrite
  <2>2. (IF Twice(P) THEN {} ELSE P \ Refused(P)) \in SUBSET plan
    OBVIOUS
  <2> QED BY <2>1, <2>2
<1> DEFINE K == Kept(P)
<1>2. PICK due \in SUBSET plan :
        /\ job' = [j \in Jobs |-> IF \E a \in K : a.job = j
                     THEN [job[j] EXCEPT !.status = "running",
                                         !.genut = (CHOOSE a \in K : a.job = j).genut]
                     ELSE job[j]]
        /\ worker' = [w \in Workers |-> IF \E a \in K : a.genut = w
                       THEN [there |-> TRUE, current |-> (CHOOSE a \in K : a.genut = w).job]
                       ELSE worker[w]]
        /\ thread' = [j \in Jobs |-> IF \E a \in due : a.job = j
                       THEN [thread[j] EXCEPT !.pc = "due"] ELSE thread[j]]
  BY <1>1
<1>3. UNCHANGED <<name, lost, moved>> /\ plan' = {}
  BY DEF ClaimWrite, history
<1>a. Assigns
  BY DEF ClaimWrite
<1>4. \A a \in K : a \in plan /\ a.job \in Jobs /\ a.genut \in Workers /\ Row(a.job)
  BY <1>a, KeptIsRead
<1>5. \A a \in plan : a.genut # None /\ a.job \in Jobs /\ KindOf[a.job] = "genut" /\ ~Running(a.job)
  BY <1>a DEF AdminInv, PlanApart, ApartInv, PlanIsFree, Assigns
<1>6. \A a, b \in K : a # b => a.job # b.job /\ a.genut # b.genut
  BY <1>4, <1>5 DEF AdminInv, PlanApart, ApartInv, PlanIsFree
<1> HIDE DEF K
<1>7. ASSUME NEW a \in K
      PROVE  /\ job'[a.job] = [status |-> "running", product |-> job[a.job].product,
                               genut |-> a.genut]
             /\ worker'[a.genut] = [there |-> TRUE, current |-> a.job]
  <2>1. (CHOOSE b \in K : b.job = a.job) = a /\ (CHOOSE b \in K : b.genut = a.genut) = a
    BY <1>6
  <2>2. job[a.job] = [status |-> job[a.job].status, product |-> job[a.job].product,
                      genut |-> job[a.job].genut]
    BY <1>4 DEF AdminInv, Rows
  <2>3. job'[a.job] = [job[a.job] EXCEPT !.status = "running", !.genut = a.genut]
    BY <1>2, <1>4, <2>1
  <2>4. worker'[a.genut] = [there |-> TRUE, current |-> a.job]
    BY <1>2, <1>4, <2>1
  <2> QED BY <2>2, <2>3, <2>4
<1>8. \A j \in Jobs : (\A a \in K : a.job # j) => job'[j] = job[j]
  BY <1>2
<1>9. \A w \in Workers : (\A a \in K : a.genut # w) => worker'[w] = worker[w]
  BY <1>2
<1>10. \A j \in Jobs : /\ job'[j].product = job[j].product /\ Key(j)' = Key(j)
                       /\ Row(j)' => Row(j)
                       /\ Running(j)' => Running(j) \/ \E a \in K : a.job = j
                       /\ Running(j) => Running(j)' /\ job'[j] = job[j] /\ \A a \in K : a.job # j
  <2> SUFFICES ASSUME NEW j \in Jobs
               PROVE  /\ job'[j].product = job[j].product
                      /\ Row(j)' => Row(j)
                      /\ Running(j)' => Running(j) \/ \E a \in K : a.job = j
                      /\ Running(j) => Running(j)' /\ job'[j] = job[j] /\ \A a \in K : a.job # j
    BY <1>3 DEF Key
  <2>1. ASSUME NEW a \in K, a.job = j
        PROVE  job'[j].product = job[j].product /\ Row(j) /\ ~Running(j)
    <3>1. job'[j] = [status |-> "running", product |-> job[j].product, genut |-> a.genut]
      BY <1>7, <2>1
    <3> QED BY <1>4, <1>5, <2>1, <3>1
  <2>2. CASE \A a \in K : a.job # j
    BY <1>8, <2>2 DEF Row, Running, Status
  <2> QED BY <2>1, <2>2
<1>11. ThreadsAgree'
  <2>1. thread' \in [Jobs -> [pc : {"none", "due", "run"}, genut : Workers \cup {None},
                              mine : BOOLEAN]]
    BY <1>2 DEF ApartInv, ThreadsAgree
  <2>2. ASSUME NEW j \in Jobs
        PROVE  thread'[j] = thread[j] \/ (~Runs(j)' /\ KindOf[j] = "genut")
    <3>1. CASE \E a \in due : a.job = j
      <4>1. thread[j] \in [pc : {"none", "due", "run"}, genut : Workers \cup {None}, mine : BOOLEAN]
        BY DEF ApartInv, ThreadsAgree
      <4>2. thread'[j].pc = "due" /\ KindOf[j] = "genut"
        BY <1>2, <1>5, <3>1, <4>1
      <4> QED BY <4>2 DEF Runs
    <3>2. CASE ~ \E a \in due : a.job = j
      BY <1>2, <3>2
    <3> QED BY <3>1, <3>2
  <2>3. ASSUME NEW j \in Jobs, job'[j].genut # None PROVE Running(j)' /\ KindOf[j] = "genut"
    <3>1. CASE \E a \in K : a.job = j
      <4>1. PICK a \in K : a.job = j
        BY <3>1
      <4>2. job'[j] = [status |-> "running", product |-> job[j].product, genut |-> a.genut]
        BY <1>7, <4>1
      <4> QED BY <1>4, <1>5, <4>1, <4>2 DEF Running, Status
    <3>2. CASE \A a \in K : a.job # j
      BY <1>8, <2>3, <3>2 DEF ApartInv, ThreadsAgree, Running, Status
    <3> QED BY <3>1, <3>2
  <2>4. ASSUME NEW j \in Jobs, j \notin lost, thread'[j] = thread[j]
        PROVE  /\ Runs(j)' => Running(j)' /\ thread'[j].genut = job'[j].genut
               /\ thread'[j].pc # "none" /\ KindOf[j] = "prep" => Running(j)'
    BY <1>10, <2>4 DEF ApartInv, ThreadsAgree, Runs
  <2>5. \A j \in Jobs : KindOf[j] = "genut" => KindOf[j] # "prep"
    OBVIOUS
  <2>6. \A j \in Jobs :
          /\ (Runs(j) /\ j \notin lost => Running(j) /\ thread[j].genut = job[j].genut)'
          /\ (thread[j].pc # "none" /\ KindOf[j] = "prep" /\ j \notin lost => Running(j))'
          /\ (job[j].genut # None => Running(j) /\ KindOf[j] = "genut")'
    BY <1>3, <2>2, <2>3, <2>4, <2>5
  <2> QED BY <2>1, <2>6 DEF ThreadsAgree
<1>12. WorkersServe'
  <2>1. worker' \in [Workers -> [there : BOOLEAN, current : Jobs \cup {None}]]
    <3>1. ASSUME NEW w \in Workers
          PROVE  worker'[w] \in [there : BOOLEAN, current : Jobs \cup {None}]
      <4>1. ASSUME NEW a \in K, a.genut = w
            PROVE  worker'[w] \in [there : BOOLEAN, current : Jobs \cup {None}]
        <5>1. worker'[w] = [there |-> TRUE, current |-> a.job] /\ a.job \in Jobs
          BY <1>4, <1>7, <4>1
        <5> QED BY <5>1
      <4>2. CASE \A a \in K : a.genut # w
        BY <1>9, <4>2 DEF ApartInv, WorkersServe
      <4> QED BY <4>1, <4>2
    <3> QED BY <1>2, <3>1
  <2>2. ASSUME NEW j \in Jobs, Running(j)', KindOf[j] = "genut", j \notin lost'
        PROVE  Serves(j)'
    <3>1. CASE \E a \in K : a.job = j
      <4>1. PICK a \in K : a.job = j
        BY <3>1
      <4>2. /\ job'[j] = [status |-> "running", product |-> job[j].product, genut |-> a.genut]
            /\ worker'[a.genut] = [there |-> TRUE, current |-> j]
            /\ a.genut \in Workers
        BY <1>4, <1>7, <4>1
      <4>3. job'[j].genut = a.genut
        BY <4>2
      <4> QED BY <4>2, <4>3 DEF Serves
    <3>2. CASE \A a \in K : a.job # j
      <4>1. Running(j) /\ j \notin lost /\ Serves(j) /\ job'[j] = job[j]
        BY <1>3, <1>10, <2>2, <3>2 DEF ApartInv, WorkersServe
      <4>2. \A a \in K : a.genut # job[j].genut
        BY <1>4, <1>5, <4>1 DEF ApartInv, PlanIsFree
      <4> QED BY <1>9, <4>1, <4>2 DEF Serves
    <3> QED BY <3>1, <3>2
  <2> QED BY <2>1, <2>2 DEF WorkersServe
<1>13. KeysApart'
  <2>1. ASSUME NEW a \in K, NEW j \in Jobs, a.job # j, Running(j)', j \notin lost,
               {a.job, j} \cap moved = {}
        PROVE  Key(a.job) # Key(j)
    <3>1. CASE Running(j)
      BY <1>4, <2>1, <3>1 DEF ApartInv, PlanIsFree
    <3>2. CASE \E b \in K : b.job = j
      <4>1. PICK b \in K : b.job = j
        BY <3>2
      <4>2. b \in plan \ {a} /\ Row(b.job) /\ a \in plan /\ Row(a.job)
        BY <1>4, <2>1, <4>1
      <4> QED BY <2>1, <4>1, <4>2 DEF ApartInv, PlanIsFree
    <3> QED BY <1>10, <2>1, <3>1, <3>2
  <2>2. ASSUME NEW i \in Jobs, NEW j \in Jobs, i # j, Running(i)', Running(j)',
               {i, j} \cap (lost \cup moved) = {}
        PROVE  Key(i) # Key(j)
    <3>1. CASE Running(i) /\ Running(j)
      BY <2>2, <3>1 DEF ApartInv, KeysApart
    <3>2. CASE \E a \in K : a.job = i
      <4>1. PICK a \in K : a.job = i
        BY <3>2
      <4>2. j \notin lost /\ {a.job, j} \cap moved = {} /\ a.job # j
        BY <2>2, <4>1
      <4> QED BY <2>1, <2>2, <4>1, <4>2
    <3>3. CASE \E a \in K : a.job = j
      <4>1. PICK a \in K : a.job = j
        BY <3>3
      <4>2. i \notin lost /\ {a.job, i} \cap moved = {} /\ a.job # i
        BY <2>2, <4>1
      <4> QED BY <2>1, <2>2, <4>1, <4>2
    <3> QED BY <1>10, <2>2, <3>1, <3>2, <3>3
  <2>3. name' \in [Products -> Names \cup {None}]
        /\ \A j \in Jobs : Row(j)' => name'[job'[j].product] # None
    BY <1>3, <1>10 DEF ApartInv, KeysApart
  <2> QED BY <1>3, <1>10, <2>2, <2>3 DEF KeysApart
<1> QED BY <1>3, <1>11, <1>12, <1>13 DEF ApartInv, PlanIsFree

-----------------------------------------------------------------------------

\* A job that ends is not running; the thread that frees its worker takes it from a job that
\* is lost by that, if from any.
LEMMA EndsApart ==
  ASSUME AdminInv, ApartInv, NEW j \in Jobs, Ends(j), Row(j), Leaves(j),
         UNCHANGED <<name, plan, moved>>, lost \subseteq lost',
         worker' \in [Workers -> [there : BOOLEAN, current : Jobs \cup {None}]],
         \A i \in Jobs \ {j} : Running(i) /\ i \notin lost' /\ KindOf[i] = "genut"
           => worker'[job[i].genut] = worker[job[i].genut]
  PROVE  ApartInv'
<1>1. /\ job'[j] = [status |-> "over", product |-> job[j].product, genut |-> None]
      /\ \A i \in Jobs \ {j} : job'[i] = job[i]
  BY DEF AdminInv, Rows, Ends
<1>2. /\ thread' = [thread EXCEPT ![j] = NoThread]
      /\ thread \in [Jobs -> [pc : {"none", "due", "run"}, genut : Workers \cup {None},
                              mine : BOOLEAN]]
  BY DEF ApartInv, ThreadsAgree, Leaves
<1>3. \A i \in Jobs : /\ Running(i)' = (Running(i) /\ i # j)
                      /\ Row(i)' = Row(i) /\ Key(i)' = Key(i)
                      /\ job'[i].product = job[i].product
  BY <1>1 DEF Running, Row, Status, Key
<1>4. ThreadsAgree'
  <2>1. thread' \in [Jobs -> [pc : {"none", "due", "run"}, genut : Workers \cup {None},
                              mine : BOOLEAN]]
    BY <1>2 DEF NoThread
  <2>2. ~Runs(j)' /\ thread'[j].pc = "none" /\ job'[j].genut = None
    BY <1>1, <1>2 DEF Runs, NoThread
  <2>3. \A i \in Jobs \ {j} : thread'[i] = thread[i] /\ Runs(i)' = Runs(i)
    BY <1>2 DEF Runs
  <2> QED BY <1>1, <1>3, <2>1, <2>2, <2>3 DEF ApartInv, ThreadsAgree
<1>5. /\ plan \subseteq [job : Jobs, genut : Workers \cup {None}]
      /\ name' \in [Products -> Names \cup {None}]
      /\ \A i \in Jobs : Row(i)' => name'[job'[i].product] # None
  BY <1>3 DEF AdminInv, PlanApart, ApartInv, KeysApart
<1>6. \A a \in plan : a.job \in Jobs
  BY <1>5
<1> QED BY <1>1, <1>3, <1>4, <1>5, <1>6, RestKeepsApart

\* Only a thread moves, to nothing, or to work on a job that runs or is lost.
LEMMA ThreadApart ==
  ASSUME AdminInv, ApartInv, NEW j \in Jobs, NEW t,
         UNCHANGED <<name, job, worker, plan, lost, moved>>,
         thread' = [thread EXCEPT ![j] = t],
         \/ t = NoThread
         \/ /\ t \in [pc : {"run"}, genut : {job[j].genut}, mine : BOOLEAN]
            /\ Running(j) \/ j \in lost
  PROVE  ApartInv'
<1>1. /\ thread \in [Jobs -> [pc : {"none", "due", "run"}, genut : Workers \cup {None},
                              mine : BOOLEAN]]
      /\ job[j].genut \in Workers \cup {None}
      /\ plan \subseteq [job : Jobs, genut : Workers \cup {None}]
      /\ name \in [Products -> Names \cup {None}]
      /\ worker \in [Workers -> [there : BOOLEAN, current : Jobs \cup {None}]]
      /\ \A i \in Jobs : Row(i) => name[job[i].product] # None
  BY DEF AdminInv, Rows, PlanApart, ApartInv, ThreadsAgree, KeysApart, WorkersServe
<1>2. \A i : Running(i)' = Running(i) /\ Row(i)' = Row(i) /\ Key(i)' = Key(i)
  BY DEF Running, Row, Status, Key
<1>3. ThreadsAgree'
  <2>1. t \in [pc : {"none", "due", "run"}, genut : Workers \cup {None}, mine : BOOLEAN]
    <3>1. CASE t = NoThread
      BY <3>1 DEF NoThread
    <3>2. CASE t \in [pc : {"run"}, genut : {job[j].genut}, mine : BOOLEAN]
      BY <1>1, <3>2
    <3> QED BY <3>1, <3>2
  <2>2. /\ thread'[j] = t /\ \A i \in Jobs \ {j} : thread'[i] = thread[i]
        /\ thread' \in [Jobs -> [pc : {"none", "due", "run"}, genut : Workers \cup {None},
                                 mine : BOOLEAN]]
    BY <1>1, <2>1
  <2>3. Runs(j)' => t.genut = job[j].genut /\ (Running(j) \/ j \in lost)
    BY <2>2 DEF Runs, NoThread
  <2>4. t.pc # "none" => Running(j) \/ j \in lost
    BY DEF NoThread
  <2>5. \A i \in Jobs \ {j} : Runs(i)' = Runs(i)
    BY <2>2 DEF Runs
  <2> QED BY <1>2, <2>2, <2>3, <2>4, <2>5 DEF ApartInv, ThreadsAgree
<1> QED BY <1>1, <1>2, <1>3, RestKeepsApart

LEMMA WorksApart == ASSUME AdminInv, ApartInv, NEW j \in Jobs, Works(j) PROVE ApartInv'
<1>1. worker \in [Workers -> [there : BOOLEAN, current : Jobs \cup {None}]]
  BY DEF ApartInv, WorkersServe
<1>2. CASE Start(j)
  <2>1. UNCHANGED <<name, worker, plan, lost, moved>> /\ thread[j].pc = "due"
    BY <1>2 DEF Start, history
  <2>2. CASE ~Row(j) /\ Leaves(j) /\ UNCHANGED job
    BY <2>1, <2>2, ThreadApart DEF Leaves
  <2>3. CASE Row(j) /\ Ends(j) /\ Leaves(j)
    BY <1>1, <2>1, <2>3, EndsApart
  <2>4. CASE /\ Row(j) /\ (KindOf[j] = "genut" => job[j].genut # None)
             /\ thread' = [thread EXCEPT ![j] =
                  [pc |-> "run", genut |-> job[j].genut,
                   mine |-> job[j].genut # None /\ worker[job[j].genut].current = j]]
             /\ UNCHANGED job
    <3> DEFINE t == [pc |-> "run", genut |-> job[j].genut,
                     mine |-> job[j].genut # None /\ worker[job[j].genut].current = j]
    <3>1. t \in [pc : {"run"}, genut : {job[j].genut}, mine : BOOLEAN]
      OBVIOUS
    <3>2. Running(j) \/ j \in lost
      <4>1. KindOf[j] \in {"genut", "prep"}
        BY AdministrationAssumption
      <4> QED BY <2>1, <2>4, <4>1 DEF ApartInv, ThreadsAgree
    <3>3. thread' = [thread EXCEPT ![j] = t]
      BY <2>4
    <3> HIDE DEF t
    <3> QED BY <2>1, <2>4, <3>1, <3>2, <3>3, ThreadApart
  <2> QED BY <1>2, <2>2, <2>3, <2>4 DEF Start
<1>3. CASE FinishGenut(j)
  <2> DEFINE w == thread[j].genut
  <2>1. Ends(j) /\ Row(j) /\ Leaves(j) /\ UNCHANGED <<name, plan, moved>>
    BY <1>3 DEF FinishGenut
  <2>2. CASE UNCHANGED <<worker, lost>>
    BY <1>1, <2>1, <2>2, EndsApart
  <2>3. CASE /\ worker' = [worker EXCEPT ![w] = IF thread[j].mine THEN IdleWorker ELSE @]
             /\ lost' = lost \cup (IF thread[j].mine THEN {worker[w].current} \ {None, j} ELSE {})
    <3>1. worker' \in [Workers -> [there : BOOLEAN, current : Jobs \cup {None}]]
      BY <1>1, <2>3 DEF IdleWorker
    <3>2. ASSUME NEW i \in Jobs \ {j}, Running(i), i \notin lost', KindOf[i] = "genut"
          PROVE  worker'[job[i].genut] = worker[job[i].genut]
      <4>1. /\ job[i].genut \in Workers /\ worker[job[i].genut].current = i
            /\ i # None
        BY <2>3, <3>2, ServedApart
      <4>2. thread[j].mine => job[i].genut # w
        BY <2>3, <3>2, <4>1
      <4> QED BY <1>1, <2>3, <4>1, <4>2
    <3> QED BY <2>1, <2>3, <3>1, <3>2, EndsApart
  <2> QED BY <1>3, <2>2, <2>3 DEF FinishGenut
<1>4. CASE FinishPrep(j)
  BY <1>1, <1>4, EndsApart DEF FinishPrep, history
<1>5. CASE FinishNothing(j)
  BY <1>5, ThreadApart DEF FinishNothing, Leaves, tables, history
<1> QED BY <1>2, <1>3, <1>4, <1>5 DEF Works

\* The threads of jobs that run have the worker of their row, which serves one job.
LEMMA ApartRunners == ApartInv => RunnersApart
<1> SUFFICES ASSUME ApartInv, NEW i \in Jobs, NEW j \in Jobs, i # j, Runs(i), Runs(j),
                    {i, j} \cap (lost \cup moved) = {}
             PROVE  /\ Key(i) # Key(j)
                    /\ thread[i].genut # thread[j].genut \/ thread[i].genut = None
  BY DEF RunnersApart
<1>1. /\ i \notin lost /\ j \notin lost
      /\ Running(i) /\ thread[i].genut = job[i].genut
      /\ Running(j) /\ thread[j].genut = job[j].genut
  BY DEF ApartInv, ThreadsAgree
<1>2. Key(i) # Key(j)
  BY <1>1 DEF ApartInv, KeysApart
<1>3. ASSUME job[i].genut = job[j].genut, job[i].genut # None PROVE FALSE
  <2>1. KindOf[i] = "genut" /\ KindOf[j] = "genut"
    BY <1>3 DEF ApartInv, ThreadsAgree
  <2>2. worker[job[i].genut].current = i /\ worker[job[j].genut].current = j
    BY <1>1, <2>1, ServedApart
  <2> QED BY <1>3, <2>2
<1> QED BY <1>1, <1>2, <1>3

\* Jobs that run at the same time have different keys and different workers, unless a request
\* that had counted before their claim deleted a row of theirs or their product was renamed.
THEOREM RunnersStayApart == Spec => []RunnersApart
<1>1. Init => AdminInv /\ ApartInv
  BY AdminStarts, ApartStarts
<1>2. AdminInv /\ ApartInv /\ [Next]_vars => (AdminInv /\ ApartInv)'
  <2> SUFFICES ASSUME AdminInv, ApartInv, [Next]_vars PROVE ApartInv'
    BY AdminStep
  <2>1. CASE Administers
    BY <2>1, AdministersApart
  <2>2. ASSUME NEW r \in requests, Responds(r) PROVE ApartInv'
    BY <2>2, DeleteProductApart, DeleteWorkerApart, InsertApart DEF Responds
  <2>3. CASE ClaimRead \/ ClaimWrite \/ ClaimPrepRead \/ ClaimPrepWrite
    BY <2>3, ClaimReadApart, ClaimWriteApart, ClaimPrepReadApart, ClaimPrepWriteApart
  <2>4. ASSUME NEW j \in Jobs, Works(j) PROVE ApartInv'
    BY <2>4, WorksApart
  <2>5. CASE UNCHANGED vars
    <3>1. UNCHANGED <<name, job, worker, thread, plan, lost, moved>>
      BY <2>5 DEF vars, tables, history
    <3>2. /\ plan \subseteq [job : Jobs, genut : Workers \cup {None}]
          /\ name \in [Products -> Names \cup {None}]
          /\ \A j \in Jobs : Row(j) => name[job[j].product] # None
      BY DEF AdminInv, PlanApart, ApartInv, KeysApart
    <3>3. \A j \in Jobs : Key(j)' = Key(j)
      BY <3>1 DEF Key
    <3> QED BY <3>1, <3>2, <3>3, KeysKeepApart
  <2> QED BY <2>1, <2>2, <2>3, <2>4, <2>5 DEF Next
<1> QED BY <1>1, <1>2, ApartRunners, PTL DEF Spec

=============================================================================
