--------------------------- MODULE ProcessRunProofs ---------------------------
(***************************************************************************)
(* That a canceled job is always about to lose its process, that a call    *)
(* leaves nothing of its group behind, and that at most one callback comes *)
(* late, for every script and any number of requests.                      *)
(***************************************************************************)
EXTENDS ProcessRun, TLAPS

\* The stages the worker has not come to.
Ahead(k) == k > worker.at \/ IsAt(k, "stage")

\* Nothing has happened to a stage ahead.
NotBegun ==
  \A k \in Stages : Ahead(k) => leader[k] = "none" /\ after[k] = 0

\* A command that was not started has nothing.
Unstarted ==
  \A k \in Stages : leader[k] = "none" => children[k] = {} /\ reader[k] = "none"

\* A killed tree stays dead: what is left is outside the group.
KilledIsDead ==
  /\ \A k \in killed : Dead(k) /\ children[k] \subseteq {"stray"}
  /\ stop \subseteq killed

\* What the worker knows at each place in a call.
InCall ==
  LET k == worker.at IN
  /\ worker.pc \in {"register", "kill", "wait", "reap", "join", "close"} =>
       k \in Commands /\ leader[k] # "none"
  /\ worker.pc \in {"register", "kill", "join", "close"} => k \in Streams
  /\ worker.pc \in {"register", "kill"} => reader[k] = "none"
  /\ worker.pc \in {"kill", "wait"} /\ k \in Streams => registered = k
  /\ worker.pc = "join" => Dead(k)
  /\ worker.pc = "reap" => k \in killed
  /\ worker.pc = "close" => k \in stop
  /\ worker.pc = "over" => k \in Stages

\* Whom a request is about to kill, and whom the next would kill, has been started.
TargetsStarted ==
  /\ registered # 0 => leader[registered] # "none"
  /\ \A c \in Cancelers : canceler[c].pc = "kill" =>
       canceler[c].target # 0 /\ leader[canceler[c].target] # "none"

\* A reader that has ended was told to stop or has seen the end of its pipe, for good.
ReadersEnd ==
  \A k \in Stages : /\ reader[k] # "none" => k \in Streams
                    /\ reader[k] = "gone" => k \in stop \/ ~PipeOpen(k)

\* What a call has established when it returns.
CallsEnd ==
  \A k \in Commands : Returned(k) /\ leader[k] # "none" =>
    /\ Dead(k) /\ "pipe" \notin children[k]
    /\ k \in Streams => k \in stop \/ reader[k] = "gone"

\* Before the return no callback is late, and after it at most the one of a line that had
\* passed the test.
LateCallbacks ==
  \A k \in Stages : \/ after[k] = 0
                    \/ after[k] = 1 /\ Returned(k) /\ reader[k] # "passed"

\* The inductive invariant.
ProcessInv ==
  /\ TypeOK /\ NotBegun /\ Unstarted /\ KilledIsDead /\ InCall /\ TargetsStarted
  /\ ReadersEnd /\ CallsEnd /\ LateCallbacks /\ KillIsComing

-----------------------------------------------------------------------------
(* Proofs *)

USE ScriptAssumption

LEMMA StageFacts ==
  /\ Tools \subseteq Streams /\ Streams \subseteq Commands /\ Commands \subseteq Stages
  /\ Stages = 1..Len(Script) /\ Len(Script) \in Nat
  /\ \A k \in Stages : k \in Nat /\ k # 0
BY DEF Tools, Streams, Commands, Stages

LEMMA Starts == Init => ProcessInv
<1> SUFFICES ASSUME Init PROVE ProcessInv
  OBVIOUS
<1>1. TypeOK
  <2>1. worker \in Worker
    <3>1. 1 \in 1..Len(Script) + 1
      BY StageFacts
    <3> QED BY <3>1 DEF Init, Worker
  <2>2. canceler \in [Cancelers -> [pc : {"idle", "kill", "over"}, target : {0} \cup Stages]]
    BY DEF Init
  <2>3. /\ leader \in [Stages -> {"none", "live", "done", "failed", "killed"}]
        /\ reader \in [Stages -> {"none", "reading", "passed", "calling", "gone"}]
        /\ children \in [Stages -> SUBSET Children] /\ after \in [Stages -> 0..2]
    BY DEF Init
  <2>4. stop \subseteq Stages /\ killed \subseteq Stages /\ flag \in BOOLEAN /\ registered = 0
    BY DEF Init
  <2> QED BY <2>1, <2>2, <2>3, <2>4 DEF TypeOK
<1>2. NotBegun /\ Unstarted /\ KilledIsDead /\ InCall /\ TargetsStarted
  BY StageFacts DEF Init, NotBegun, Unstarted, KilledIsDead, InCall, TargetsStarted
<1>3. ReadersEnd /\ CallsEnd /\ LateCallbacks /\ KillIsComing
  BY StageFacts DEF Init, ReadersEnd, CallsEnd, LateCallbacks, KillIsComing, IsAt, Returned
<1> QED BY <1>1, <1>2, <1>3 DEF ProcessInv

LEMMA KillTreeType ==
  ASSUME TypeOK, NEW k \in Stages, KillTree(k)
  PROVE  /\ leader' \in [Stages -> {"none", "live", "done", "failed", "killed"}]
         /\ children' \in [Stages -> SUBSET Children] /\ killed' \subseteq Stages
BY DEF TypeOK, KillTree

\* Where the worker may go.
LEMMA WorkerType ==
  ASSUME TypeOK, NEW k \in Stages, worker.at = k,
         \/ Returns(k)
         \/ \E pc \in {"stage", "register", "kill", "wait", "reap", "join", "close", "over"} :
              \/ Goto(pc)
              \/ worker' = [worker EXCEPT !.pc = pc, !.late = TRUE]
         \/ worker' = [worker EXCEPT !.at = @ + 1]
  PROVE  worker' \in Worker
<1>1. k \in 1..Len(Script) + 1 /\ k + 1 \in 1..Len(Script) + 1
  BY StageFacts
<1>2. worker \in Worker
  BY DEF TypeOK
<1>3. CASE Returns(k)
  <2>1. /\ [at |-> k + 1, pc |-> "stage", late |-> FALSE] \in Worker
        /\ [at |-> k, pc |-> "over", late |-> FALSE] \in Worker
    BY <1>1 DEF Worker
  <2> QED BY <1>3, <2>1 DEF Returns
<1>4. CASE worker' = [worker EXCEPT !.at = @ + 1]
  BY <1>1, <1>2, <1>4 DEF Worker
<1> QED BY <1>2, <1>3, <1>4 DEF Goto, Worker

LEMMA CheckKeeps ==
  ASSUME ProcessInv, Check
  PROVE  ProcessInv'
<1>0. /\ TypeOK /\ NotBegun /\ Unstarted /\ KilledIsDead /\ InCall /\ TargetsStarted
      /\ ReadersEnd /\ CallsEnd /\ LateCallbacks /\ KillIsComing
  BY DEF ProcessInv
<1> USE StageFacts DEF Check, Current, IsAt, processes, registry
<1>1. TypeOK'
  <2>1. worker' \in Worker
    BY <1>0, WorkerType DEF Goto
  <2> QED BY <1>0, <2>1 DEF TypeOK
<1>2. NotBegun'
  BY <1>0 DEF NotBegun, TypeOK, Worker, InCall, TargetsStarted, Ahead
<1>3. Unstarted'
  BY <1>0 DEF Unstarted, TypeOK, Worker, InCall, TargetsStarted
<1>4. KilledIsDead'
  BY <1>0 DEF KilledIsDead, TypeOK, Worker, TargetsStarted, InCall, NotBegun, Ahead, Dead
<1>5. InCall'
  BY <1>0 DEF InCall, TypeOK, Worker, KilledIsDead, Unstarted, NotBegun, Ahead, Dead
<1>6. TargetsStarted'
  BY <1>0 DEF TargetsStarted, TypeOK, Worker, InCall
<1>7. ReadersEnd'
  BY <1>0 DEF ReadersEnd, TypeOK, Worker, NotBegun, KilledIsDead, Unstarted, InCall, Ahead, Dead, PipeOpen
<1>8. CallsEnd'
  BY <1>0 DEF CallsEnd, TypeOK, Worker, InCall, KilledIsDead, ReadersEnd, Unstarted, Returned, Dead, PipeOpen
<1>9. LateCallbacks'
  BY <1>0 DEF LateCallbacks, TypeOK, Worker, CallsEnd, ReadersEnd, NotBegun, Ahead, InCall, KilledIsDead, Returned
<1>10. KillIsComing'
  BY <1>0 DEF KillIsComing, TypeOK, Worker, InCall, TargetsStarted, KilledIsDead
<1> QED BY <1>1, <1>2, <1>3, <1>4, <1>5, <1>6, <1>7, <1>8, <1>9, <1>10 DEF ProcessInv

LEMMA PopenKeeps ==
  ASSUME ProcessInv, NEW k \in Stages, Popen(k)
  PROVE  ProcessInv'
<1>0. /\ TypeOK /\ NotBegun /\ Unstarted /\ KilledIsDead /\ InCall /\ TargetsStarted
      /\ ReadersEnd /\ CallsEnd /\ LateCallbacks /\ KillIsComing
  BY DEF ProcessInv
<1> USE StageFacts DEF Popen, Goto, IsAt, processes, registry
<1>1. TypeOK'
  BY <1>0 DEF TypeOK, Worker, Children
<1>2. NotBegun'
  BY <1>0 DEF NotBegun, TypeOK, Worker, InCall, TargetsStarted, Ahead
<1>3. Unstarted'
  BY <1>0 DEF Unstarted, TypeOK, Worker, InCall, TargetsStarted
<1>4. KilledIsDead'
  BY <1>0 DEF KilledIsDead, TypeOK, Worker, TargetsStarted, InCall, NotBegun, Ahead, Dead
<1>5. InCall'
  BY <1>0 DEF InCall, TypeOK, Worker, KilledIsDead, Unstarted, NotBegun, Ahead, Dead
<1>6. TargetsStarted'
  BY <1>0 DEF TargetsStarted, TypeOK, Worker, InCall
<1>7. ReadersEnd'
  BY <1>0 DEF ReadersEnd, TypeOK, Worker, NotBegun, KilledIsDead, Unstarted, InCall, Ahead, Dead, PipeOpen
<1>8. CallsEnd'
  BY <1>0 DEF CallsEnd, TypeOK, Worker, InCall, KilledIsDead, ReadersEnd, Unstarted, Returned, Dead, PipeOpen
<1>9. LateCallbacks'
  BY <1>0 DEF LateCallbacks, TypeOK, Worker, CallsEnd, ReadersEnd, NotBegun, Ahead, InCall, KilledIsDead, Returned
<1>10. KillIsComing'
  BY <1>0 DEF KillIsComing, TypeOK, Worker, InCall, TargetsStarted, KilledIsDead
<1> QED BY <1>1, <1>2, <1>3, <1>4, <1>5, <1>6, <1>7, <1>8, <1>9, <1>10 DEF ProcessInv

LEMMA NotFoundKeeps ==
  ASSUME ProcessInv, NEW k \in Stages, NotFound(k)
  PROVE  ProcessInv'
<1>0. /\ TypeOK /\ NotBegun /\ Unstarted /\ KilledIsDead /\ InCall /\ TargetsStarted
      /\ ReadersEnd /\ CallsEnd /\ LateCallbacks /\ KillIsComing
  BY DEF ProcessInv
<1> USE StageFacts DEF NotFound, IsAt, processes, registry
<1>a. /\ worker.at = k
      /\ \/ worker' = [at |-> k + 1, pc |-> "stage", late |-> FALSE]
         \/ worker' = [at |-> k, pc |-> "over", late |-> FALSE]
  BY DEF Returns
<1>1. TypeOK'
  <2>1. worker' \in Worker
    BY <1>0, <1>a, WorkerType
  <2> QED BY <1>0, <2>1 DEF TypeOK
<1>2. NotBegun'
  BY <1>0, <1>a DEF NotBegun, TypeOK, Worker, InCall, TargetsStarted, Ahead
<1>3. Unstarted'
  BY <1>0, <1>a DEF Unstarted, TypeOK, Worker, InCall, TargetsStarted
<1>4. KilledIsDead'
  BY <1>0, <1>a DEF KilledIsDead, TypeOK, Worker, TargetsStarted, InCall, NotBegun, Ahead, Dead
<1>5. InCall'
  BY <1>0, <1>a DEF InCall, TypeOK, Worker, KilledIsDead, Unstarted, NotBegun, Ahead, Dead
<1>6. TargetsStarted'
  BY <1>0, <1>a DEF TargetsStarted, TypeOK, Worker, InCall
<1>7. ReadersEnd'
  BY <1>0, <1>a DEF ReadersEnd, TypeOK, Worker, NotBegun, KilledIsDead, Unstarted, InCall, Ahead, Dead, PipeOpen
<1>8. CallsEnd'
  <2>1. leader[k] = "none" /\ UNCHANGED <<leader, children, reader, stop>>
    BY <1>0, <1>a DEF NotBegun, Ahead
  <2>2. \A j \in Commands : j # k /\ Returned(j)' => Returned(j)
    BY <1>a DEF Returned
  <2> QED BY <1>0, <2>1, <2>2 DEF CallsEnd, Dead
<1>9. LateCallbacks'
  BY <1>0, <1>a DEF LateCallbacks, TypeOK, Worker, CallsEnd, ReadersEnd, NotBegun, Ahead, InCall, KilledIsDead, Returned
<1>10. KillIsComing'
  BY <1>0, <1>a DEF KillIsComing, TypeOK, Worker, InCall, TargetsStarted, KilledIsDead
<1> QED BY <1>1, <1>2, <1>3, <1>4, <1>5, <1>6, <1>7, <1>8, <1>9, <1>10 DEF ProcessInv

LEMMA RegisterKeeps ==
  ASSUME ProcessInv, NEW k \in Stages, Register(k)
  PROVE  ProcessInv'
<1>0. /\ TypeOK /\ NotBegun /\ Unstarted /\ KilledIsDead /\ InCall /\ TargetsStarted
      /\ ReadersEnd /\ CallsEnd /\ LateCallbacks /\ KillIsComing
  BY DEF ProcessInv
<1> USE StageFacts DEF Register, Goto, IsAt, processes, registry
<1>a. worker.at = k /\ worker' \in Worker /\ worker'.at = k /\ worker'.pc \in {"kill", "wait"}
  <2>1. worker \in Worker
    BY <1>0 DEF TypeOK
  <2> QED BY <2>1 DEF Worker
<1>b. reader' = reader \/ reader' = [reader EXCEPT ![k] = "reading"]
  OBVIOUS
<1>1. TypeOK'
  <2>1. reader' \in [Stages -> {"none", "reading", "passed", "calling", "gone"}]
    BY <1>0, <1>b DEF TypeOK
  <2>2. UNCHANGED <<leader, children, stop, flag, canceler, killed, after>> /\ registered' = k
    OBVIOUS
  <2> QED BY <1>0, <1>a, <2>1, <2>2 DEF TypeOK
<1>2. NotBegun'
  BY <1>0, <1>a DEF NotBegun, Ahead
<1>3. Unstarted'
  BY <1>0 DEF Unstarted, TypeOK, Worker, InCall, TargetsStarted
<1>4. KilledIsDead'
  BY <1>0 DEF KilledIsDead, TypeOK, Worker, TargetsStarted, InCall, NotBegun, Ahead, Dead
<1>5. InCall'
  BY <1>0 DEF InCall, TypeOK, Worker, KilledIsDead, Unstarted, NotBegun, Ahead, Dead
<1>6. TargetsStarted'
  BY <1>0 DEF TargetsStarted, TypeOK, Worker, InCall
<1>7. ReadersEnd'
  BY <1>0 DEF ReadersEnd, TypeOK, Worker, NotBegun, KilledIsDead, Unstarted, InCall, Ahead, Dead, PipeOpen
<1>8. CallsEnd'
  BY <1>0, <1>a, <1>b DEF CallsEnd, Returned, Dead, TypeOK
<1>9. LateCallbacks'
  BY <1>0, <1>a, <1>b DEF LateCallbacks, Returned, TypeOK
<1>10. KillIsComing'
  BY <1>0 DEF KillIsComing, TypeOK, Worker, InCall, TargetsStarted, KilledIsDead
<1> QED BY <1>1, <1>2, <1>3, <1>4, <1>5, <1>6, <1>7, <1>8, <1>9, <1>10 DEF ProcessInv

LEMMA KillNowKeeps ==
  ASSUME ProcessInv, NEW k \in Stages, KillNow(k)
  PROVE  ProcessInv'
<1>0. /\ TypeOK /\ NotBegun /\ Unstarted /\ KilledIsDead /\ InCall /\ TargetsStarted
      /\ ReadersEnd /\ CallsEnd /\ LateCallbacks /\ KillIsComing
  BY DEF ProcessInv
<1> USE StageFacts DEF KillNow, KillTree, Goto, IsAt, processes, registry
<1>1. TypeOK'
  BY <1>0 DEF TypeOK, Worker, Children
<1>2. NotBegun'
  BY <1>0 DEF NotBegun, TypeOK, Worker, InCall, TargetsStarted, Ahead
<1>3. Unstarted'
  BY <1>0 DEF Unstarted, TypeOK, Worker, InCall, TargetsStarted
<1>4. KilledIsDead'
  BY <1>0 DEF KilledIsDead, TypeOK, Worker, TargetsStarted, InCall, NotBegun, Ahead, Dead
<1>5. InCall'
  BY <1>0 DEF InCall, TypeOK, Worker, KilledIsDead, Unstarted, NotBegun, Ahead, Dead
<1>6. TargetsStarted'
  BY <1>0 DEF TargetsStarted, TypeOK, Worker, InCall
<1>7. ReadersEnd'
  BY <1>0 DEF ReadersEnd, TypeOK, Worker, NotBegun, KilledIsDead, Unstarted, InCall, Ahead, Dead, PipeOpen
<1>8. CallsEnd'
  BY <1>0 DEF CallsEnd, TypeOK, Worker, InCall, KilledIsDead, ReadersEnd, Unstarted, Returned, Dead, PipeOpen
<1>9. LateCallbacks'
  BY <1>0 DEF LateCallbacks, TypeOK, Worker, CallsEnd, ReadersEnd, NotBegun, Ahead, InCall, KilledIsDead, Returned
<1>10. KillIsComing'
  BY <1>0 DEF KillIsComing, TypeOK, Worker, InCall, TargetsStarted, KilledIsDead
<1> QED BY <1>1, <1>2, <1>3, <1>4, <1>5, <1>6, <1>7, <1>8, <1>9, <1>10 DEF ProcessInv

LEMMA WaitKeeps ==
  ASSUME ProcessInv, NEW k \in Stages, Wait(k)
  PROVE  ProcessInv'
<1>0. /\ TypeOK /\ NotBegun /\ Unstarted /\ KilledIsDead /\ InCall /\ TargetsStarted
      /\ ReadersEnd /\ CallsEnd /\ LateCallbacks /\ KillIsComing
  BY DEF ProcessInv
<1> USE StageFacts DEF Wait, Goto, IsAt, processes, registry
<1>1. TypeOK'
  BY <1>0 DEF TypeOK, Worker, Children
<1>2. NotBegun'
  BY <1>0 DEF NotBegun, TypeOK, Worker, InCall, TargetsStarted, Ahead
<1>3. Unstarted'
  BY <1>0 DEF Unstarted, TypeOK, Worker, InCall, TargetsStarted
<1>4. KilledIsDead'
  BY <1>0 DEF KilledIsDead, TypeOK, Worker, TargetsStarted, InCall, NotBegun, Ahead, Dead
<1>5. InCall'
  BY <1>0 DEF InCall, TypeOK, Worker, KilledIsDead, Unstarted, NotBegun, Ahead, Dead
<1>6. TargetsStarted'
  BY <1>0 DEF TargetsStarted, TypeOK, Worker, InCall
<1>7. ReadersEnd'
  BY <1>0 DEF ReadersEnd, TypeOK, Worker, NotBegun, KilledIsDead, Unstarted, InCall, Ahead, Dead, PipeOpen
<1>8. CallsEnd'
  BY <1>0 DEF CallsEnd, TypeOK, Worker, InCall, KilledIsDead, ReadersEnd, Unstarted, Returned, Dead, PipeOpen
<1>9. LateCallbacks'
  BY <1>0 DEF LateCallbacks, TypeOK, Worker, CallsEnd, ReadersEnd, NotBegun, Ahead, InCall, KilledIsDead, Returned
<1>10. KillIsComing'
  BY <1>0 DEF KillIsComing, TypeOK, Worker, InCall, TargetsStarted, KilledIsDead
<1> QED BY <1>1, <1>2, <1>3, <1>4, <1>5, <1>6, <1>7, <1>8, <1>9, <1>10 DEF ProcessInv

LEMMA CommunicateKeeps ==
  ASSUME ProcessInv, NEW k \in Stages, Communicate(k)
  PROVE  ProcessInv'
<1>0. /\ TypeOK /\ NotBegun /\ Unstarted /\ KilledIsDead /\ InCall /\ TargetsStarted
      /\ ReadersEnd /\ CallsEnd /\ LateCallbacks /\ KillIsComing
  BY DEF ProcessInv
<1> USE StageFacts DEF Communicate, Returns, IsAt, processes, registry
<1>1. TypeOK'
  <2>1. worker' \in Worker
    BY <1>0, WorkerType DEF Returned
  <2> QED BY <1>0, <2>1 DEF TypeOK
<1>2. NotBegun'
  BY <1>0 DEF NotBegun, TypeOK, Worker, InCall, TargetsStarted, Ahead
<1>3. Unstarted'
  BY <1>0 DEF Unstarted, TypeOK, Worker, InCall, TargetsStarted
<1>4. KilledIsDead'
  BY <1>0 DEF KilledIsDead, TypeOK, Worker, TargetsStarted, InCall, NotBegun, Ahead, Dead
<1>5. InCall'
  BY <1>0 DEF InCall, TypeOK, Worker, KilledIsDead, Unstarted, NotBegun, Ahead, Dead
<1>6. TargetsStarted'
  BY <1>0 DEF TargetsStarted, TypeOK, Worker, InCall
<1>7. ReadersEnd'
  BY <1>0 DEF ReadersEnd, TypeOK, Worker, NotBegun, KilledIsDead, Unstarted, InCall, Ahead, Dead, PipeOpen
<1>8. CallsEnd'
  BY <1>0 DEF CallsEnd, TypeOK, Worker, InCall, KilledIsDead, ReadersEnd, Unstarted, Returned, Dead, PipeOpen
<1>9. LateCallbacks'
  BY <1>0 DEF LateCallbacks, TypeOK, Worker, CallsEnd, ReadersEnd, NotBegun, Ahead, InCall, KilledIsDead, Returned
<1>10. KillIsComing'
  BY <1>0 DEF KillIsComing, TypeOK, Worker, InCall, TargetsStarted, KilledIsDead
<1> QED BY <1>1, <1>2, <1>3, <1>4, <1>5, <1>6, <1>7, <1>8, <1>9, <1>10 DEF ProcessInv

LEMMA TimeoutKeeps ==
  ASSUME ProcessInv, NEW k \in Stages, Timeout(k)
  PROVE  ProcessInv'
<1>0. /\ TypeOK /\ NotBegun /\ Unstarted /\ KilledIsDead /\ InCall /\ TargetsStarted
      /\ ReadersEnd /\ CallsEnd /\ LateCallbacks /\ KillIsComing
  BY DEF ProcessInv
<1> USE StageFacts DEF Timeout, KillTree, IsAt, processes, registry
<1>1. TypeOK'
  BY <1>0 DEF TypeOK, Worker, Children
<1>2. NotBegun'
  BY <1>0 DEF NotBegun, TypeOK, Worker, InCall, TargetsStarted, Ahead
<1>3. Unstarted'
  BY <1>0 DEF Unstarted, TypeOK, Worker, InCall, TargetsStarted
<1>4. KilledIsDead'
  BY <1>0 DEF KilledIsDead, TypeOK, Worker, TargetsStarted, InCall, NotBegun, Ahead, Dead
<1>5. InCall'
  BY <1>0 DEF InCall, TypeOK, Worker, KilledIsDead, Unstarted, NotBegun, Ahead, Dead
<1>6. TargetsStarted'
  BY <1>0 DEF TargetsStarted, TypeOK, Worker, InCall
<1>7. ReadersEnd'
  BY <1>0 DEF ReadersEnd, TypeOK, Worker, NotBegun, KilledIsDead, Unstarted, InCall, Ahead, Dead, PipeOpen
<1>8. CallsEnd'
  BY <1>0 DEF CallsEnd, TypeOK, Worker, InCall, KilledIsDead, ReadersEnd, Unstarted, Returned, Dead, PipeOpen
<1>9. LateCallbacks'
  BY <1>0 DEF LateCallbacks, TypeOK, Worker, CallsEnd, ReadersEnd, NotBegun, Ahead, InCall, KilledIsDead, Returned
<1>10. KillIsComing'
  BY <1>0 DEF KillIsComing, TypeOK, Worker, InCall, TargetsStarted, KilledIsDead
<1> QED BY <1>1, <1>2, <1>3, <1>4, <1>5, <1>6, <1>7, <1>8, <1>9, <1>10 DEF ProcessInv

LEMMA ReapKeeps ==
  ASSUME ProcessInv, NEW k \in Stages, Reap(k)
  PROVE  ProcessInv'
<1>0. /\ TypeOK /\ NotBegun /\ Unstarted /\ KilledIsDead /\ InCall /\ TargetsStarted
      /\ ReadersEnd /\ CallsEnd /\ LateCallbacks /\ KillIsComing
  BY DEF ProcessInv
<1> USE StageFacts DEF Reap, Returns, Goto, IsAt, processes, registry
<1>a. worker \in Worker
  BY <1>0 DEF TypeOK
<1>1. TypeOK'
  <2>1. worker' \in Worker
    BY <1>0, WorkerType DEF Returned
  <2> QED BY <1>0, <2>1 DEF TypeOK
<1>2. NotBegun'
  BY <1>0 DEF NotBegun, TypeOK, Worker, InCall, TargetsStarted, Ahead
<1>3. Unstarted'
  BY <1>0 DEF Unstarted, TypeOK, Worker, InCall, TargetsStarted
<1>4. KilledIsDead'
  BY <1>0 DEF KilledIsDead, TypeOK, Worker, TargetsStarted, InCall, NotBegun, Ahead, Dead
<1>5. InCall'
  <2>1. CASE k \in Streams
    BY <1>0, <1>a, <2>1 DEF InCall, KilledIsDead, Dead, Worker
  <2>2. CASE k \notin Streams
    BY <1>0, <1>a, <2>2 DEF InCall, Worker
  <2> QED BY <2>1, <2>2
<1>6. TargetsStarted'
  BY <1>0 DEF TargetsStarted, TypeOK, Worker, InCall
<1>7. ReadersEnd'
  BY <1>0 DEF ReadersEnd, TypeOK, Worker, NotBegun, KilledIsDead, Unstarted, InCall, Ahead, Dead, PipeOpen
<1>8. CallsEnd'
  <2>1. UNCHANGED <<leader, children, reader, stop>> /\ k \in killed /\ worker.at = k
    BY <1>0 DEF InCall
  <2>2. ASSUME NEW j \in Commands, Returned(j)', ~Returned(j) PROVE j = k /\ k \notin Streams
    BY <1>a, <2>1, <2>2 DEF Returned, Worker
  <2>3. Dead(k) /\ "pipe" \notin children[k]
    BY <1>0, <2>1 DEF KilledIsDead
  <2> QED BY <1>0, <2>1, <2>2, <2>3 DEF CallsEnd, Dead
<1>9. LateCallbacks'
  BY <1>0 DEF LateCallbacks, TypeOK, Worker, CallsEnd, ReadersEnd, NotBegun, Ahead, InCall, KilledIsDead, Returned
<1>10. KillIsComing'
  BY <1>0 DEF KillIsComing, TypeOK, Worker, InCall, TargetsStarted, KilledIsDead
<1> QED BY <1>1, <1>2, <1>3, <1>4, <1>5, <1>6, <1>7, <1>8, <1>9, <1>10 DEF ProcessInv

LEMMA JoinKeeps ==
  ASSUME ProcessInv, NEW k \in Stages, Join(k)
  PROVE  ProcessInv'
<1>0. /\ TypeOK /\ NotBegun /\ Unstarted /\ KilledIsDead /\ InCall /\ TargetsStarted
      /\ ReadersEnd /\ CallsEnd /\ LateCallbacks /\ KillIsComing
  BY DEF ProcessInv
<1> USE StageFacts DEF Join, Returns, KillTree, Goto, IsAt, processes, registry
<1>a. worker \in Worker
  BY <1>0 DEF TypeOK
<1>b. \/ worker'.at = k + 1 /\ worker'.pc = "stage"
      \/ worker'.at = k /\ worker'.pc \in {"over", "close"}
  BY <1>a DEF Worker
<1>1. TypeOK'
  <2>1. worker' \in Worker
    BY <1>0, WorkerType
  <2>2. /\ leader' \in [Stages -> {"none", "live", "done", "failed", "killed"}]
        /\ children' \in [Stages -> SUBSET Children] /\ killed' \subseteq Stages
    BY <1>0, KillTreeType DEF TypeOK
  <2> QED BY <1>0, <2>1, <2>2 DEF TypeOK
<1>2. NotBegun'
  <2>1. leader[k] # "none" /\ after' = after /\ \A j \in Stages : j # k => leader'[j] = leader[j]
    BY <1>0 DEF InCall, TypeOK
  <2>2. \A j \in Stages : Ahead(j)' => j > k
    BY <1>b DEF Ahead
  <2> QED BY <1>0, <2>1, <2>2 DEF NotBegun, Ahead
<1>3. Unstarted'
  BY <1>0 DEF Unstarted, TypeOK, Worker, InCall, TargetsStarted
<1>4. KilledIsDead'
  BY <1>0 DEF KilledIsDead, TypeOK, Worker, TargetsStarted, InCall, NotBegun, Ahead, Dead
<1>5. InCall'
  BY <1>0 DEF InCall, TypeOK, Worker, KilledIsDead, Unstarted, NotBegun, Ahead, Dead
<1>6. TargetsStarted'
  BY <1>0 DEF TargetsStarted, TypeOK, Worker, InCall
<1>7. ReadersEnd'
  BY <1>0 DEF ReadersEnd, TypeOK, Worker, NotBegun, KilledIsDead, Unstarted, InCall, Ahead, Dead, PipeOpen
<1>8. CallsEnd'
  <2>1. ASSUME NEW j \in Commands, Returned(j)', j # k
        PROVE  Returned(j)
    BY <1>b, <2>1 DEF Returned
  <2>2. Returned(k)' => reader[k] = "gone" /\ UNCHANGED <<processes, reader, stop>>
    BY <1>a DEF Returned, Worker
  <2>3. Dead(k) /\ k \in Streams
    BY <1>0 DEF InCall
  <2>4. reader[k] = "gone" => "pipe" \notin children[k]
    BY <1>0 DEF ReadersEnd, KilledIsDead, PipeOpen
  <2>5. \A j \in Commands : j # k => /\ leader'[j] = leader[j] /\ children'[j] = children[j]
                                   /\ reader'[j] = reader[j] /\ (j \in stop => j \in stop')
    BY <1>0 DEF TypeOK
  <2> QED BY <1>0, <2>1, <2>2, <2>3, <2>4, <2>5 DEF CallsEnd, Dead
<1>9. LateCallbacks'
  BY <1>0 DEF LateCallbacks, TypeOK, Worker, CallsEnd, ReadersEnd, NotBegun, Ahead, InCall, KilledIsDead, Returned
<1>10. KillIsComing'
  BY <1>0 DEF KillIsComing, TypeOK, Worker, InCall, TargetsStarted, KilledIsDead
<1> QED BY <1>1, <1>2, <1>3, <1>4, <1>5, <1>6, <1>7, <1>8, <1>9, <1>10 DEF ProcessInv

LEMMA CloseKeeps ==
  ASSUME ProcessInv, NEW k \in Stages, Close(k)
  PROVE  ProcessInv'
<1>0. /\ TypeOK /\ NotBegun /\ Unstarted /\ KilledIsDead /\ InCall /\ TargetsStarted
      /\ ReadersEnd /\ CallsEnd /\ LateCallbacks /\ KillIsComing
  BY DEF ProcessInv
<1> USE StageFacts DEF Close, Returns, IsAt, processes, registry
<1>1. TypeOK'
  <2>1. worker' \in Worker
    BY <1>0, WorkerType DEF Returned
  <2> QED BY <1>0, <2>1 DEF TypeOK
<1>2. NotBegun'
  BY <1>0 DEF NotBegun, TypeOK, Worker, InCall, TargetsStarted, Ahead
<1>3. Unstarted'
  BY <1>0 DEF Unstarted, TypeOK, Worker, InCall, TargetsStarted
<1>4. KilledIsDead'
  BY <1>0 DEF KilledIsDead, TypeOK, Worker, TargetsStarted, InCall, NotBegun, Ahead, Dead
<1>5. InCall'
  BY <1>0 DEF InCall, TypeOK, Worker, KilledIsDead, Unstarted, NotBegun, Ahead, Dead
<1>6. TargetsStarted'
  BY <1>0 DEF TargetsStarted, TypeOK, Worker, InCall
<1>7. ReadersEnd'
  BY <1>0 DEF ReadersEnd, TypeOK, Worker, NotBegun, KilledIsDead, Unstarted, InCall, Ahead, Dead, PipeOpen
<1>8. CallsEnd'
  BY <1>0 DEF CallsEnd, TypeOK, Worker, InCall, KilledIsDead, ReadersEnd, Unstarted, Returned, Dead, PipeOpen
<1>9. LateCallbacks'
  BY <1>0 DEF LateCallbacks, TypeOK, Worker, CallsEnd, ReadersEnd, NotBegun, Ahead, InCall, KilledIsDead, Returned
<1>10. KillIsComing'
  BY <1>0 DEF KillIsComing, TypeOK, Worker, InCall, TargetsStarted, KilledIsDead
<1> QED BY <1>1, <1>2, <1>3, <1>4, <1>5, <1>6, <1>7, <1>8, <1>9, <1>10 DEF ProcessInv

LEMMA ReadLineKeeps ==
  ASSUME ProcessInv, NEW k \in Stages, ReadLine(k)
  PROVE  ProcessInv'
<1>0. /\ TypeOK /\ NotBegun /\ Unstarted /\ KilledIsDead /\ InCall /\ TargetsStarted
      /\ ReadersEnd /\ CallsEnd /\ LateCallbacks /\ KillIsComing
  BY DEF ProcessInv
<1> USE StageFacts DEF ReadLine, IsAt, processes, registry
<1>1. TypeOK'
  BY <1>0 DEF TypeOK, Worker, Children
<1>2. NotBegun'
  BY <1>0 DEF NotBegun, TypeOK, Worker, InCall, TargetsStarted, Ahead
<1>3. Unstarted'
  BY <1>0 DEF Unstarted, TypeOK, Worker, InCall, TargetsStarted
<1>4. KilledIsDead'
  BY <1>0 DEF KilledIsDead, TypeOK, Worker, TargetsStarted, InCall, NotBegun, Ahead, Dead
<1>5. InCall'
  BY <1>0 DEF InCall, TypeOK, Worker, KilledIsDead, Unstarted, NotBegun, Ahead, Dead
<1>6. TargetsStarted'
  BY <1>0 DEF TargetsStarted, TypeOK, Worker, InCall
<1>7. ReadersEnd'
  BY <1>0 DEF ReadersEnd, TypeOK, Worker, NotBegun, KilledIsDead, Unstarted, InCall, Ahead, Dead, PipeOpen
<1>8. CallsEnd'
  BY <1>0 DEF CallsEnd, TypeOK, Worker, InCall, KilledIsDead, ReadersEnd, Unstarted, Returned, Dead, PipeOpen
<1>9. LateCallbacks'
  <2>1. /\ UNCHANGED <<worker, after>> /\ \A j \in Stages : j # k => reader'[j] = reader[j]
        /\ reader'[k] = "passed" => k \in Tools /\ k \notin stop
        /\ reader[k] = "reading"
    BY <1>0 DEF TypeOK
  <2>2. k \in Tools /\ k \notin stop => ~Returned(k)
    BY <1>0, <2>1 DEF CallsEnd, Unstarted
  <2> QED BY <1>0, <2>1, <2>2 DEF LateCallbacks, Returned
<1>10. KillIsComing'
  BY <1>0 DEF KillIsComing, TypeOK, Worker, InCall, TargetsStarted, KilledIsDead
<1> QED BY <1>1, <1>2, <1>3, <1>4, <1>5, <1>6, <1>7, <1>8, <1>9, <1>10 DEF ProcessInv

LEMMA BeginCallbackKeeps ==
  ASSUME ProcessInv, NEW k \in Stages, BeginCallback(k)
  PROVE  ProcessInv'
<1>0. /\ TypeOK /\ NotBegun /\ Unstarted /\ KilledIsDead /\ InCall /\ TargetsStarted
      /\ ReadersEnd /\ CallsEnd /\ LateCallbacks /\ KillIsComing
  BY DEF ProcessInv
<1> USE StageFacts DEF BeginCallback, IsAt, processes, registry
<1>a. after' = [after EXCEPT ![k] = after'[k]] /\ after'[k] \in 0..2
  <2>1. after \in [Stages -> 0..2] /\ after[k] \in 0..2
    BY <1>0 DEF TypeOK
  <2>2. after'[k] = IF Returned(k) /\ after[k] < 2 THEN after[k] + 1 ELSE after[k]
    BY <2>1
  <2>3. after'[k] \in 0..2
    BY <2>1, <2>2
  <2> QED BY <2>1, <2>2, <2>3
<1>b. ~Ahead(k)
  BY <1>0 DEF NotBegun, Unstarted
<1>1. TypeOK'
  BY <1>0, <1>a DEF TypeOK
<1>2. NotBegun'
  BY <1>0, <1>a, <1>b DEF NotBegun, Ahead, TypeOK
<1>3. Unstarted'
  BY <1>0 DEF Unstarted, TypeOK, Worker, InCall, TargetsStarted
<1>4. KilledIsDead'
  BY <1>0 DEF KilledIsDead, TypeOK, Worker, TargetsStarted, InCall, NotBegun, Ahead, Dead
<1>5. InCall'
  BY <1>0 DEF InCall, TypeOK, Worker, KilledIsDead, Unstarted, NotBegun, Ahead, Dead
<1>6. TargetsStarted'
  BY <1>0 DEF TargetsStarted, TypeOK, Worker, InCall
<1>7. ReadersEnd'
  BY <1>0 DEF ReadersEnd, TypeOK, Worker, NotBegun, KilledIsDead, Unstarted, InCall, Ahead, Dead, PipeOpen
<1>8. CallsEnd'
  BY <1>0 DEF CallsEnd, TypeOK, Worker, InCall, KilledIsDead, ReadersEnd, Unstarted, Returned, Dead, PipeOpen
<1>9. LateCallbacks'
  BY <1>0 DEF LateCallbacks, TypeOK, Worker, CallsEnd, ReadersEnd, NotBegun, Ahead, InCall, KilledIsDead, Returned
<1>10. KillIsComing'
  BY <1>0 DEF KillIsComing, TypeOK, Worker, InCall, TargetsStarted, KilledIsDead
<1> QED BY <1>1, <1>2, <1>3, <1>4, <1>5, <1>6, <1>7, <1>8, <1>9, <1>10 DEF ProcessInv

LEMMA EndCallbackKeeps ==
  ASSUME ProcessInv, NEW k \in Stages, EndCallback(k)
  PROVE  ProcessInv'
<1>0. /\ TypeOK /\ NotBegun /\ Unstarted /\ KilledIsDead /\ InCall /\ TargetsStarted
      /\ ReadersEnd /\ CallsEnd /\ LateCallbacks /\ KillIsComing
  BY DEF ProcessInv
<1> USE StageFacts DEF EndCallback, IsAt, processes, registry
<1>1. TypeOK'
  BY <1>0 DEF TypeOK, Worker, Children
<1>2. NotBegun'
  BY <1>0 DEF NotBegun, TypeOK, Worker, InCall, TargetsStarted, Ahead
<1>3. Unstarted'
  BY <1>0 DEF Unstarted, TypeOK, Worker, InCall, TargetsStarted
<1>4. KilledIsDead'
  BY <1>0 DEF KilledIsDead, TypeOK, Worker, TargetsStarted, InCall, NotBegun, Ahead, Dead
<1>5. InCall'
  BY <1>0 DEF InCall, TypeOK, Worker, KilledIsDead, Unstarted, NotBegun, Ahead, Dead
<1>6. TargetsStarted'
  BY <1>0 DEF TargetsStarted, TypeOK, Worker, InCall
<1>7. ReadersEnd'
  BY <1>0 DEF ReadersEnd, TypeOK, Worker, NotBegun, KilledIsDead, Unstarted, InCall, Ahead, Dead, PipeOpen
<1>8. CallsEnd'
  BY <1>0 DEF CallsEnd, TypeOK, Worker, InCall, KilledIsDead, ReadersEnd, Unstarted, Returned, Dead, PipeOpen
<1>9. LateCallbacks'
  BY <1>0 DEF LateCallbacks, TypeOK, Worker, CallsEnd, ReadersEnd, NotBegun, Ahead, InCall, KilledIsDead, Returned
<1>10. KillIsComing'
  BY <1>0 DEF KillIsComing, TypeOK, Worker, InCall, TargetsStarted, KilledIsDead
<1> QED BY <1>1, <1>2, <1>3, <1>4, <1>5, <1>6, <1>7, <1>8, <1>9, <1>10 DEF ProcessInv

LEMMA EndOfFileKeeps ==
  ASSUME ProcessInv, NEW k \in Stages, EndOfFile(k)
  PROVE  ProcessInv'
<1>0. /\ TypeOK /\ NotBegun /\ Unstarted /\ KilledIsDead /\ InCall /\ TargetsStarted
      /\ ReadersEnd /\ CallsEnd /\ LateCallbacks /\ KillIsComing
  BY DEF ProcessInv
<1> USE StageFacts DEF EndOfFile, IsAt, processes, registry
<1>1. TypeOK'
  BY <1>0 DEF TypeOK, Worker, Children
<1>2. NotBegun'
  BY <1>0 DEF NotBegun, TypeOK, Worker, InCall, TargetsStarted, Ahead
<1>3. Unstarted'
  BY <1>0 DEF Unstarted, TypeOK, Worker, InCall, TargetsStarted
<1>4. KilledIsDead'
  BY <1>0 DEF KilledIsDead, TypeOK, Worker, TargetsStarted, InCall, NotBegun, Ahead, Dead
<1>5. InCall'
  BY <1>0 DEF InCall, TypeOK, Worker, KilledIsDead, Unstarted, NotBegun, Ahead, Dead
<1>6. TargetsStarted'
  BY <1>0 DEF TargetsStarted, TypeOK, Worker, InCall
<1>7. ReadersEnd'
  BY <1>0 DEF ReadersEnd, TypeOK, Worker, NotBegun, KilledIsDead, Unstarted, InCall, Ahead, Dead, PipeOpen
<1>8. CallsEnd'
  BY <1>0 DEF CallsEnd, TypeOK, Worker, InCall, KilledIsDead, ReadersEnd, Unstarted, Returned, Dead, PipeOpen
<1>9. LateCallbacks'
  BY <1>0 DEF LateCallbacks, TypeOK, Worker, CallsEnd, ReadersEnd, NotBegun, Ahead, InCall, KilledIsDead, Returned
<1>10. KillIsComing'
  BY <1>0 DEF KillIsComing, TypeOK, Worker, InCall, TargetsStarted, KilledIsDead
<1> QED BY <1>1, <1>2, <1>3, <1>4, <1>5, <1>6, <1>7, <1>8, <1>9, <1>10 DEF ProcessInv

LEMMA ForkKeeps ==
  ASSUME ProcessInv, NEW k \in Stages, NEW d \in Children, Fork(k, d)
  PROVE  ProcessInv'
<1>0. /\ TypeOK /\ NotBegun /\ Unstarted /\ KilledIsDead /\ InCall /\ TargetsStarted
      /\ ReadersEnd /\ CallsEnd /\ LateCallbacks /\ KillIsComing
  BY DEF ProcessInv
<1> USE StageFacts DEF Fork, IsAt, processes, registry
<1>1. TypeOK'
  BY <1>0 DEF TypeOK, Worker, Children
<1>2. NotBegun'
  BY <1>0 DEF NotBegun, TypeOK, Worker, InCall, TargetsStarted, Ahead
<1>3. Unstarted'
  BY <1>0 DEF Unstarted, TypeOK, Worker, InCall, TargetsStarted
<1>4. KilledIsDead'
  BY <1>0 DEF KilledIsDead, TypeOK, Worker, TargetsStarted, InCall, NotBegun, Ahead, Dead
<1>5. InCall'
  BY <1>0 DEF InCall, TypeOK, Worker, KilledIsDead, Unstarted, NotBegun, Ahead, Dead
<1>6. TargetsStarted'
  BY <1>0 DEF TargetsStarted, TypeOK, Worker, InCall
<1>7. ReadersEnd'
  BY <1>0 DEF ReadersEnd, TypeOK, Worker, NotBegun, KilledIsDead, Unstarted, InCall, Ahead, Dead, PipeOpen
<1>8. CallsEnd'
  BY <1>0 DEF CallsEnd, TypeOK, Worker, InCall, KilledIsDead, ReadersEnd, Unstarted, Returned, Dead, PipeOpen
<1>9. LateCallbacks'
  BY <1>0 DEF LateCallbacks, TypeOK, Worker, CallsEnd, ReadersEnd, NotBegun, Ahead, InCall, KilledIsDead, Returned
<1>10. KillIsComing'
  BY <1>0 DEF KillIsComing, TypeOK, Worker, InCall, TargetsStarted, KilledIsDead
<1> QED BY <1>1, <1>2, <1>3, <1>4, <1>5, <1>6, <1>7, <1>8, <1>9, <1>10 DEF ProcessInv

LEMMA ExitKeeps ==
  ASSUME ProcessInv, NEW k \in Stages, Exit(k)
  PROVE  ProcessInv'
<1>0. /\ TypeOK /\ NotBegun /\ Unstarted /\ KilledIsDead /\ InCall /\ TargetsStarted
      /\ ReadersEnd /\ CallsEnd /\ LateCallbacks /\ KillIsComing
  BY DEF ProcessInv
<1> USE StageFacts DEF Exit, IsAt, processes, registry
<1>1. TypeOK'
  BY <1>0 DEF TypeOK, Worker, Children
<1>2. NotBegun'
  BY <1>0 DEF NotBegun, TypeOK, Worker, InCall, TargetsStarted, Ahead
<1>3. Unstarted'
  BY <1>0 DEF Unstarted, TypeOK, Worker, InCall, TargetsStarted
<1>4. KilledIsDead'
  BY <1>0 DEF KilledIsDead, TypeOK, Worker, TargetsStarted, InCall, NotBegun, Ahead, Dead
<1>5. InCall'
  BY <1>0 DEF InCall, TypeOK, Worker, KilledIsDead, Unstarted, NotBegun, Ahead, Dead
<1>6. TargetsStarted'
  BY <1>0 DEF TargetsStarted, TypeOK, Worker, InCall
<1>7. ReadersEnd'
  BY <1>0 DEF ReadersEnd, TypeOK, Worker, NotBegun, KilledIsDead, Unstarted, InCall, Ahead, Dead, PipeOpen
<1>8. CallsEnd'
  BY <1>0 DEF CallsEnd, TypeOK, Worker, InCall, KilledIsDead, ReadersEnd, Unstarted, Returned, Dead, PipeOpen
<1>9. LateCallbacks'
  BY <1>0 DEF LateCallbacks, TypeOK, Worker, CallsEnd, ReadersEnd, NotBegun, Ahead, InCall, KilledIsDead, Returned
<1>10. KillIsComing'
  BY <1>0 DEF KillIsComing, TypeOK, Worker, InCall, TargetsStarted, KilledIsDead
<1> QED BY <1>1, <1>2, <1>3, <1>4, <1>5, <1>6, <1>7, <1>8, <1>9, <1>10 DEF ProcessInv

LEMMA ChildExitsKeeps ==
  ASSUME ProcessInv, NEW k \in Stages, NEW d \in Children, ChildExits(k, d)
  PROVE  ProcessInv'
<1>0. /\ TypeOK /\ NotBegun /\ Unstarted /\ KilledIsDead /\ InCall /\ TargetsStarted
      /\ ReadersEnd /\ CallsEnd /\ LateCallbacks /\ KillIsComing
  BY DEF ProcessInv
<1> USE StageFacts DEF ChildExits, IsAt, processes, registry
<1>1. TypeOK'
  BY <1>0 DEF TypeOK, Worker, Children
<1>2. NotBegun'
  BY <1>0 DEF NotBegun, TypeOK, Worker, InCall, TargetsStarted, Ahead
<1>3. Unstarted'
  BY <1>0 DEF Unstarted, TypeOK, Worker, InCall, TargetsStarted
<1>4. KilledIsDead'
  BY <1>0 DEF KilledIsDead, TypeOK, Worker, TargetsStarted, InCall, NotBegun, Ahead, Dead
<1>5. InCall'
  BY <1>0 DEF InCall, TypeOK, Worker, KilledIsDead, Unstarted, NotBegun, Ahead, Dead
<1>6. TargetsStarted'
  BY <1>0 DEF TargetsStarted, TypeOK, Worker, InCall
<1>7. ReadersEnd'
  BY <1>0 DEF ReadersEnd, TypeOK, Worker, NotBegun, KilledIsDead, Unstarted, InCall, Ahead, Dead, PipeOpen
<1>8. CallsEnd'
  BY <1>0 DEF CallsEnd, TypeOK, Worker, InCall, KilledIsDead, ReadersEnd, Unstarted, Returned, Dead, PipeOpen
<1>9. LateCallbacks'
  BY <1>0 DEF LateCallbacks, TypeOK, Worker, CallsEnd, ReadersEnd, NotBegun, Ahead, InCall, KilledIsDead, Returned
<1>10. KillIsComing'
  BY <1>0 DEF KillIsComing, TypeOK, Worker, InCall, TargetsStarted, KilledIsDead
<1> QED BY <1>1, <1>2, <1>3, <1>4, <1>5, <1>6, <1>7, <1>8, <1>9, <1>10 DEF ProcessInv

LEMMA CancelKeeps ==
  ASSUME ProcessInv, NEW c \in Cancelers, Cancel(c)
  PROVE  ProcessInv'
<1>0. /\ TypeOK /\ NotBegun /\ Unstarted /\ KilledIsDead /\ InCall /\ TargetsStarted
      /\ ReadersEnd /\ CallsEnd /\ LateCallbacks /\ KillIsComing
  BY DEF ProcessInv
<1> USE StageFacts DEF Cancel, IsAt, processes, registry
<1>1. TypeOK'
  BY <1>0 DEF TypeOK, Worker, Children
<1>2. NotBegun'
  BY <1>0 DEF NotBegun, TypeOK, Worker, InCall, TargetsStarted, Ahead
<1>3. Unstarted'
  BY <1>0 DEF Unstarted, TypeOK, Worker, InCall, TargetsStarted
<1>4. KilledIsDead'
  BY <1>0 DEF KilledIsDead, TypeOK, Worker, TargetsStarted, InCall, NotBegun, Ahead, Dead
<1>5. InCall'
  BY <1>0 DEF InCall, TypeOK, Worker, KilledIsDead, Unstarted, NotBegun, Ahead, Dead
<1>6. TargetsStarted'
  BY <1>0 DEF TargetsStarted, TypeOK, Worker, InCall
<1>7. ReadersEnd'
  BY <1>0 DEF ReadersEnd, TypeOK, Worker, NotBegun, KilledIsDead, Unstarted, InCall, Ahead, Dead, PipeOpen
<1>8. CallsEnd'
  BY <1>0 DEF CallsEnd, TypeOK, Worker, InCall, KilledIsDead, ReadersEnd, Unstarted, Returned, Dead, PipeOpen
<1>9. LateCallbacks'
  BY <1>0 DEF LateCallbacks, TypeOK, Worker, CallsEnd, ReadersEnd, NotBegun, Ahead, InCall, KilledIsDead, Returned
<1>10. KillIsComing'
  BY <1>0 DEF KillIsComing, TypeOK, Worker, InCall, TargetsStarted, KilledIsDead
<1> QED BY <1>1, <1>2, <1>3, <1>4, <1>5, <1>6, <1>7, <1>8, <1>9, <1>10 DEF ProcessInv

LEMMA CancelKillsKeeps ==
  ASSUME ProcessInv, NEW c \in Cancelers, CancelKills(c)
  PROVE  ProcessInv'
<1>0. /\ TypeOK /\ NotBegun /\ Unstarted /\ KilledIsDead /\ InCall /\ TargetsStarted
      /\ ReadersEnd /\ CallsEnd /\ LateCallbacks /\ KillIsComing
  BY DEF ProcessInv
<1> USE StageFacts DEF CancelKills, KillTree, IsAt, processes, registry
<1>1. TypeOK'
  <2>1. canceler[c].target \in Stages
    BY <1>0 DEF TypeOK, TargetsStarted
  <2>2. canceler' \in [Cancelers -> [pc : {"idle", "kill", "over"}, target : {0} \cup Stages]]
    BY <1>0 DEF TypeOK
  <2> QED BY <1>0, <2>1, <2>2, KillTreeType DEF TypeOK
<1>2. NotBegun'
  BY <1>0 DEF NotBegun, TypeOK, Worker, InCall, TargetsStarted, Ahead
<1>3. Unstarted'
  BY <1>0 DEF Unstarted, TypeOK, Worker, InCall, TargetsStarted
<1>4. KilledIsDead'
  BY <1>0 DEF KilledIsDead, TypeOK, Worker, TargetsStarted, InCall, NotBegun, Ahead, Dead
<1>5. InCall'
  BY <1>0 DEF InCall, TypeOK, Worker, KilledIsDead, Unstarted, NotBegun, Ahead, Dead
<1>6. TargetsStarted'
  BY <1>0 DEF TargetsStarted, TypeOK, Worker, InCall
<1>7. ReadersEnd'
  BY <1>0 DEF ReadersEnd, TypeOK, Worker, NotBegun, KilledIsDead, Unstarted, InCall, Ahead, Dead, PipeOpen
<1>8. CallsEnd'
  BY <1>0 DEF CallsEnd, TypeOK, Worker, InCall, KilledIsDead, ReadersEnd, Unstarted, Returned, Dead, PipeOpen
<1>9. LateCallbacks'
  BY <1>0 DEF LateCallbacks, TypeOK, Worker, CallsEnd, ReadersEnd, NotBegun, Ahead, InCall, KilledIsDead, Returned
<1>10. KillIsComing'
  BY <1>0 DEF KillIsComing, TypeOK, Worker, InCall, TargetsStarted, KilledIsDead
<1> QED BY <1>1, <1>2, <1>3, <1>4, <1>5, <1>6, <1>7, <1>8, <1>9, <1>10 DEF ProcessInv

LEMMA UnregisterKeeps ==
  ASSUME ProcessInv, Unregister
  PROVE  ProcessInv'
<1>0. /\ TypeOK /\ NotBegun /\ Unstarted /\ KilledIsDead /\ InCall /\ TargetsStarted
      /\ ReadersEnd /\ CallsEnd /\ LateCallbacks /\ KillIsComing
  BY DEF ProcessInv
<1> USE StageFacts DEF Unregister, IsAt, processes, registry
<1>1. TypeOK'
  BY <1>0 DEF TypeOK, Worker, Children
<1>2. NotBegun'
  BY <1>0 DEF NotBegun, TypeOK, Worker, InCall, TargetsStarted, Ahead
<1>3. Unstarted'
  BY <1>0 DEF Unstarted, TypeOK, Worker, InCall, TargetsStarted
<1>4. KilledIsDead'
  BY <1>0 DEF KilledIsDead, TypeOK, Worker, TargetsStarted, InCall, NotBegun, Ahead, Dead
<1>5. InCall'
  BY <1>0 DEF InCall, TypeOK, Worker, KilledIsDead, Unstarted, NotBegun, Ahead, Dead
<1>6. TargetsStarted'
  BY <1>0 DEF TargetsStarted, TypeOK, Worker, InCall
<1>7. ReadersEnd'
  BY <1>0 DEF ReadersEnd, TypeOK, Worker, NotBegun, KilledIsDead, Unstarted, InCall, Ahead, Dead, PipeOpen
<1>8. CallsEnd'
  BY <1>0 DEF CallsEnd, TypeOK, Worker, InCall, KilledIsDead, ReadersEnd, Unstarted, Returned, Dead, PipeOpen
<1>9. LateCallbacks'
  BY <1>0 DEF LateCallbacks, TypeOK, Worker, CallsEnd, ReadersEnd, NotBegun, Ahead, InCall, KilledIsDead, Returned
<1>10. KillIsComing'
  BY <1>0 DEF KillIsComing, TypeOK, Worker, InCall, TargetsStarted, KilledIsDead
<1> QED BY <1>1, <1>2, <1>3, <1>4, <1>5, <1>6, <1>7, <1>8, <1>9, <1>10 DEF ProcessInv

-----------------------------------------------------------------------------
(* Theorems *)

LEMMA Invariance == Spec => []ProcessInv
<1>1. ASSUME ProcessInv, [Next]_vars PROVE ProcessInv'
  <2>1. CASE Check \/ Unregister
    BY <1>1, <2>1, CheckKeeps, UnregisterKeeps
  <2>2. ASSUME NEW k \in Stages, Work(k) \/ Timeout(k) PROVE ProcessInv'
    BY <1>1, <2>2, PopenKeeps, NotFoundKeeps, RegisterKeeps, KillNowKeeps, WaitKeeps, CommunicateKeeps,
       TimeoutKeeps, ReapKeeps, JoinKeeps, CloseKeeps DEF Work
  <2>3. ASSUME NEW k \in Stages, Reading(k) \/ Process(k) PROVE ProcessInv'
    BY <1>1, <2>3, ReadLineKeeps, BeginCallbackKeeps, EndCallbackKeeps, EndOfFileKeeps,
       ForkKeeps, ExitKeeps, ChildExitsKeeps DEF Reading, Process
  <2>4. ASSUME NEW c \in Cancelers, Cancel(c) \/ CancelKills(c) PROVE ProcessInv'
    BY <1>1, <2>4, CancelKeeps, CancelKillsKeeps
  <2>5. CASE UNCHANGED vars
    BY <1>1, <2>5 DEF vars, processes, registry, ProcessInv, TypeOK, NotBegun, Unstarted,
       KilledIsDead, InCall, TargetsStarted, ReadersEnd, CallsEnd, LateCallbacks,
       KillIsComing, Ahead, IsAt, Dead, PipeOpen, Returned
  <2> QED BY <1>1, <2>1, <2>2, <2>3, <2>4, <2>5 DEF Next
<1> QED BY <1>1, Starts, PTL DEF Spec

\* While a job is canceled, a registered process that lives is about to be killed: the two
\* critical sections of process_registry leave no gap (register, cancel).
THEOREM CancelsReachProcesses == Spec => []KillIsComing
<1>1. ProcessInv => KillIsComing
  BY DEF ProcessInv
<1> QED BY <1>1, Invariance, PTL

\* A call that has returned leaves nothing of its process group that holds its pipe, and
\* after a kill nothing at all (kill_tree, _finalize_reader).
THEOREM CallsCleanUp == Spec => []NothingLeftBehind
<1>1. ProcessInv => NothingLeftBehind
  BY StageFacts DEF ProcessInv, CallsEnd, KilledIsDead, Dead, Unstarted, NothingLeftBehind
<1> QED BY <1>1, Invariance, PTL

\* At most one callback of a reader begins after its call has returned (stop, _reader).
THEOREM LateCallbacksAreBounded == Spec => []OneLateCallback
<1>1. ProcessInv => OneLateCallback
  BY StageFacts DEF ProcessInv, LateCallbacks, OneLateCallback
<1> QED BY <1>1, Invariance, PTL

=============================================================================
