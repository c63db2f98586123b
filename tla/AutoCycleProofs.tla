--------------------------- MODULE AutoCycleProofs ---------------------------
(***************************************************************************)
(* That an automatic cycle misses no change, for every product, history of *)
(* commits and order of jobs: ChangesAreTracked is an inductive invariant  *)
(* of a product without patches, and it implies NoChangeMissed.            *)
(***************************************************************************)
EXTENDS AutoCycle, TLAPS

\* The assumptions on the constants are used throughout.
USE CycleAssumption DEF Commits

LEMMA NoPrepType == NoPrep \in Prep
  BY DEF NoPrep, Prep

LEMMA InitTracked == Init => ChangesAreTracked
<1> SUFFICES ASSUME Init PROVE ChangesAreTracked
  OBVIOUS
<1>1. TypeOK
  <2>1. 0 \in Commits
    OBVIOUS
  <2>2. /\ touched \in [Commits -> SUBSET Functions]
        /\ queued \in [Targets -> Nat]
        /\ served \in [Functions -> Commits]
    BY <2>1 DEF Init
  <2>3. patched \in BOOLEAN /\ (patched => HasPatches)
    BY DEF Init
  <2> QED BY <2>1, <2>2, <2>3, NoPrepType DEF Init, TypeOK
<1>2. InOrder /\ DiffAtHead /\ IndexHolds /\ ChangesServed /\ RangeCovered
  BY DEF Init, InOrder, DiffAtHead, IndexHolds, ChangesServed, RangeCovered, NoPrep
<1> QED BY <1>1, <1>2 DEF ChangesAreTracked

-----------------------------------------------------------------------------
(* Types *)

\* The next file only changes what is left to look at.
LEMMA NextFileTakes ==
  ASSUME NEW p \in Files, NextFile(p)
  PROVE  \E R \in SUBSET Targets :
            prep' = [prep EXCEPT !.files[p] = @ - 1, !.requests = R]
<1>1. /\ {Missing(p)} \subseteq SUBSET Targets
      /\ SUBSET FunctionsOf(p) \subseteq SUBSET Targets
      /\ {Changed(p, baseline, prep.new)} \subseteq SUBSET Targets
  BY DEF Missing, Changed, FunctionsOf, Targets
<1>2. PICK R \in IF prep.kind = "scan" THEN {Missing(p)}
                 ELSE IF patched \/ head # prep.new THEN SUBSET FunctionsOf(p)
                 ELSE {Changed(p, baseline, prep.new)} :
            prep' = [prep EXCEPT !.files[p] = @ - 1, !.requests = R]
  BY DEF NextFile
<1>3. R \in SUBSET Targets
  BY <1>1, <1>2
<1> QED BY <1>2, <1>3

\* Every step preserves the types and the order of the commits.
LEMMA TypeStep ==
  ASSUME TypeOK, InOrder, [Next]_vars
  PROVE  TypeOK'
<1>0. TypeOK /\ InOrder
  OBVIOUS
<1> USE DEF TypeOK, InOrder, checkout, queue, history, budgets
<1>1. CASE StartDiff
  <2>1. ASSUME NEW h \in Commits,
               Begin("diff", h, [p \in Files |->
                        IF AutoList[p] > 0 /\ Changed(p, baseline, h) # {} THEN 1 ELSE 0])
        PROVE  prep' \in Prep
    BY <1>0, <2>1 DEF Begin, Prep, Pending, Targets
  <2>2. prep' \in Prep
    BY <1>0, <1>1, <2>1 DEF StartDiff, Updated
  <2> QED BY <1>0, <1>1, <2>2 DEF StartDiff, Updated, MoveHead
<1>2. CASE StartDiffFails
  BY <1>0, <1>2 DEF StartDiffFails, Updated, MoveHead
<1>3. CASE StartScan
  BY <1>0, <1>3 DEF StartScan, MoveHead, Begin, Prep, Pending, Targets
<1>4. ASSUME NEW p \in Files, NextFile(p)
      PROVE  TypeOK'
  <2>1. PICK R \in SUBSET Targets :
              prep' = [prep EXCEPT !.files[p] = @ - 1, !.requests = R]
    BY <1>4, NextFileTakes
  <2>2. prep.files[p] > 0 /\ prep.files \in [Files -> Nat]
    BY <1>0, <1>4 DEF NextFile, Prep
  <2>3. [prep.files EXCEPT ![p] = @ - 1] \in [Files -> Nat]
    BY <2>2
  <2>4. prep' \in Prep
    BY <1>0, <2>1, <2>3 DEF Prep
  <2> QED BY <1>0, <1>4, <2>4 DEF NextFile
<1>5. ASSUME NEW x \in Targets, Enqueue(x)
      PROVE  TypeOK'
  <2>1. prep' \in Prep
    <3>1. CASE prep' = [prep EXCEPT !.requests = @ \ {x}]
      BY <1>0, <3>1 DEF Prep
    <3>2. CASE prep' = [prep EXCEPT !.requests = @ \ {x}, !.index = @ \cup {x}]
      BY <1>0, <3>2 DEF Prep
    <3> QED BY <1>5, <3>1, <3>2, Zenon DEF Enqueue
  <2>2. queued' \in [Targets -> Nat]
    <3> HIDE DEF TypeOK, InOrder
    <3>1. queued \in [Targets -> Nat]
      BY <1>0 DEF TypeOK
    <3>2. queued' = queued \/ queued' = [queued EXCEPT ![x] = @ + 1]
      BY <1>5, Zenon DEF Enqueue
    <3> QED BY <3>1, <3>2
  <2> QED BY <1>0, <1>5, <2>1, <2>2 DEF Enqueue
<1>6. CASE FinishPrepJob
  BY <1>0, <1>6 DEF FinishPrepJob, NoPrep, Prep
<1>7. ASSUME NEW p \in Files, SkipFile(p)
      PROVE  TypeOK'
  <2>1. prep.files[p] > 0 /\ prep.files \in [Files -> Nat]
    BY <1>0, <1>7 DEF SkipFile, Prep
  <2>2. [prep.files EXCEPT ![p] = @ - 1] \in [Files -> Nat]
    BY <2>1
  <2>3. prep' \in Prep
    BY <1>0, <1>7, <2>2 DEF SkipFile, Prep
  <2> QED BY <1>0, <1>7, <2>3 DEF SkipFile
<1>8. CASE PrepAborts
  BY <1>0, <1>8 DEF PrepAborts, NoPrep, Prep
<1>9. ASSUME NEW x \in Targets, StartGenut(x)
      PROVE  TypeOK'
  <2>1. queued' \in [Targets -> Nat] /\ manual' \subseteq Targets
    <3>1. CASE queued[x] > 0 /\ queued' = [queued EXCEPT ![x] = @ - 1] /\ manual' = manual
      BY <1>0, <3>1
    <3>2. CASE manual' = manual \ {x} /\ queued' = queued
      BY <1>0, <3>2
    <3> QED BY <1>9, <3>1, <3>2 DEF StartGenut
  <2>2. PICK h \in Updated :
          /\ head' = h
          /\ patched' = HasPatches
          /\ served' = [f \in Functions |-> IF f \in FunctionsOf(x) THEN h ELSE served[f]]
    BY <1>9 DEF StartGenut
  <2>3. h \in Commits /\ h <= remote /\ (baseline # None => baseline <= h)
    BY <1>0, <2>2 DEF Updated
  <2>4. served' \in [Functions -> Commits]
    BY <1>0, <2>2, <2>3
  <2> QED BY <1>0, <1>9, <2>1, <2>2, <2>3, <2>4 DEF StartGenut
<1>10. CASE GenutReturns
  BY <1>0, <1>10 DEF GenutReturns, FunctionsOf, Targets
<1>11. CASE GenutFails
  BY <1>0, <1>11 DEF GenutFails
<1>12. CASE UserStep
  <2>1. ASSUME NEW x \in Targets, Submit(x)
        PROVE  TypeOK'
    BY <1>0, <2>1 DEF Submit, Request
  <2>2. CASE CancelQueued
    <3>1. queued' \in [Targets -> Nat] /\ manual' \subseteq Targets
      BY <2>2 DEF CancelQueued
    <3>2. served' \in [Functions -> Commits]
      BY <1>0, <2>2 DEF CancelQueued
    <3> QED BY <1>0, <2>2, <3>1, <3>2 DEF CancelQueued, Request
  <2>3. ASSUME NEW D \in SUBSET Functions, DeleteTests(D)
        PROVE  TypeOK'
    BY <1>0, <2>3 DEF DeleteTests, Request
  <2>4. CASE PullCode
    BY <1>0, <2>4 DEF PullCode, Request
  <2> QED BY <1>12, <2>1, <2>2, <2>3, <2>4 DEF UserStep
<1>13. ASSUME NEW F \in SUBSET Functions, Push(F)
       PROVE  TypeOK'
  BY <1>0, <1>13 DEF Push
<1>14. CASE UNCHANGED vars
  BY <1>0, <1>14 DEF vars
<1> QED
  BY <1>1, <1>2, <1>3, <1>4, <1>5, <1>6, <1>7, <1>8, <1>9, <1>10, <1>11, <1>12, <1>13, <1>14
  DEF Next, PrepStep

-----------------------------------------------------------------------------
(* What a running preparation job knows *)

\* The checkout never goes back.
LEMMA InOrderStep ==
  ASSUME TypeOK, InOrder, [Next]_vars
  PROVE  InOrder'
<1>0. TypeOK /\ InOrder
  OBVIOUS
<1> USE DEF TypeOK, InOrder, checkout, queue, history, budgets
<1>1. CASE StartDiff
  BY <1>0, <1>1 DEF StartDiff, Free, Updated, MoveHead, Begin
<1>2. CASE StartDiffFails
  BY <1>0, <1>2 DEF StartDiffFails, Free, Updated, MoveHead
<1>3. CASE StartScan
  BY <1>0, <1>3 DEF StartScan, Free, MoveHead, Begin
<1>4. ASSUME NEW p \in Files, NextFile(p) \/ SkipFile(p)
      PROVE  InOrder'
  <2>1. prep'.kind = prep.kind /\ prep'.new = prep.new
    <3>1. CASE NextFile(p)
      <4>1. PICK R \in SUBSET Targets :
                  prep' = [prep EXCEPT !.files[p] = @ - 1, !.requests = R]
        BY <3>1, NextFileTakes
      <4> QED BY <1>0, <4>1 DEF Prep
    <3>2. CASE SkipFile(p)
      BY <1>0, <3>2 DEF SkipFile, Prep
    <3> QED BY <1>4, <3>1, <3>2
  <2>2. UNCHANGED <<head, baseline, genut, served>>
    BY <1>4 DEF NextFile, SkipFile
  <2> QED BY <1>0, <2>1, <2>2
<1>5. ASSUME NEW x \in Targets, Enqueue(x)
      PROVE  InOrder'
  <2>1. prep'.kind = prep.kind /\ prep'.new = prep.new
    BY <1>0, <1>5 DEF Enqueue, Prep
  <2> QED BY <1>0, <1>5, <2>1 DEF Enqueue
<1>6. CASE FinishPrepJob \/ PrepAborts
  BY <1>0, <1>6 DEF FinishPrepJob, PrepAborts, NoPrep
<1>7. ASSUME NEW x \in Targets, StartGenut(x)
      PROVE  InOrder'
  BY <1>0, <1>7 DEF StartGenut, Free, Updated
<1>8. CASE GenutReturns \/ GenutFails
  BY <1>0, <1>8 DEF GenutReturns, GenutFails
<1>9. CASE UserStep
  <2>1. ASSUME NEW x \in Targets, Submit(x)
        PROVE  InOrder'
    BY <1>0, <2>1 DEF Submit
  <2>2. CASE CancelQueued
    <3>0. served' = [f \in Functions |->
                       IF Awaited(f) /\ head # None THEN head ELSE served[f]]
      BY <2>2 DEF CancelQueued
    <3>1. \A f \in Functions : served'[f] = served[f] \/ (head # None /\ served'[f] = head)
      BY <3>0
    <3>2. UNCHANGED <<baseline, prep, genut, head>>
      BY <2>2 DEF CancelQueued
    <3>3. \A f \in Functions : served'[f] > 0 => head # None /\ served'[f] <= head
      BY <1>0, <3>1
    <3> QED BY <1>0, <3>2, <3>3
  <2>3. CASE \E D \in SUBSET Functions : DeleteTests(D)
    BY <1>0, <2>3 DEF DeleteTests
  <2>4. CASE PullCode
    <3>1. remote \in Commits /\ head' = remote /\ remote # None
      BY <1>0, <2>4 DEF PullCode
    <3>2. UNCHANGED <<baseline, prep, genut, served>>
      BY <2>4 DEF PullCode
    <3>3. head # None => head <= remote
      BY <1>0
    <3>4. /\ head \in Commits \cup {None} /\ prep.new \in Commits
          /\ served \in [Functions -> Commits]
      BY <1>0 DEF Prep
    <3>5. prep.kind = "diff" => baseline # None /\ baseline < prep.new /\ prep.new <= remote
      BY <1>0, <3>1, <3>3, <3>4
    <3>6. \A f \in Functions : served[f] > 0 => served[f] <= remote
      BY <1>0, <3>1, <3>3, <3>4
    <3>7. prep.kind # "none" => genut = None
      BY <1>0
    <3> HIDE DEF TypeOK
    <3> QED BY <3>1, <3>2, <3>5, <3>6, <3>7
  <2> QED BY <1>9, <2>1, <2>2, <2>3, <2>4 DEF UserStep
<1>10. ASSUME NEW F \in SUBSET Functions, Push(F)
       PROVE  InOrder'
  BY <1>0, <1>10 DEF Push
<1>11. CASE UNCHANGED vars
  BY <1>0, <1>11 DEF vars
<1> QED
  BY <1>1, <1>2, <1>3, <1>4, <1>5, <1>6, <1>7, <1>8, <1>9, <1>10, <1>11 DEF Next, PrepStep

\* A pending job for a function or for its file is awaited by the function.
LEMMA PendingIsAwaited ==
  ASSUME NEW x \in Pending, NEW f \in FunctionsOf(x)
  PROVE  Awaited(f)
BY DEF Awaited, FunctionsOf

\* The index of a preparation job goes stale only by a cancel.
LEMMA IndexStep ==
  ASSUME TypeOK, InOrder, DiffAtHead, IndexHolds, [Next]_vars, upsets' = upsets
  PROVE  IndexHolds'
<1> USE DEF TypeOK, checkout, queue, history, budgets
<1>0. TypeOK /\ InOrder /\ IndexHolds
  OBVIOUS
<1>1. ASSUME prep'.kind # "none", prep'.index = Pending,
             UNCHANGED queue
      PROVE  IndexHolds'
  <2> SUFFICES ASSUME NEW x \in Pending, NEW f \in FunctionsOf(x)
               PROVE  Awaited(f)'
    BY <1>1 DEF IndexHolds
  <2> QED BY <1>1, PendingIsAwaited DEF Pending, Awaited
<1>2. CASE StartDiff
  <2>1. CASE UNCHANGED prep
    BY <1>2, <2>1 DEF StartDiff, Free, IndexHolds
  <2> QED BY <1>1, <1>2, <2>1 DEF StartDiff, Begin
<1>3. CASE StartScan
  BY <1>1, <1>3 DEF StartScan, Begin
<1>4. ASSUME NEW p \in Files, NextFile(p) \/ SkipFile(p)
      PROVE  IndexHolds'
  <2>1. prep'.kind = prep.kind /\ prep'.index = prep.index
    <3>1. CASE NextFile(p)
      <4>1. PICK R \in SUBSET Targets :
                  prep' = [prep EXCEPT !.files[p] = @ - 1, !.requests = R]
        BY <3>1, NextFileTakes
      <4> QED BY <1>0, <4>1 DEF Prep
    <3>2. CASE SkipFile(p)
      BY <1>0, <3>2 DEF SkipFile, Prep
    <3> QED BY <1>4, <3>1, <3>2
  <2> QED BY <1>0, <1>4, <2>1 DEF NextFile, SkipFile, IndexHolds, Awaited, Pending
<1>5. ASSUME NEW x \in Targets, Enqueue(x)
      PROVE  IndexHolds'
  <2>1. /\ prep'.kind = prep.kind
        /\ \/ prep'.index = prep.index /\ queued' = queued
           \/ prep'.index = prep.index \cup {x} /\ queued' = [queued EXCEPT ![x] = @ + 1]
    BY <1>0, <1>5 DEF Enqueue, Prep
  <2>2. Pending \subseteq Pending' /\ (prep'.index # prep.index => x \in Pending')
    <3>1. manual' = manual /\ x \in Targets
      BY <1>5 DEF Enqueue
    <3>2. CASE prep'.index = prep.index /\ queued' = queued
      BY <3>1, <3>2 DEF Pending
    <3>3. CASE queued' = [queued EXCEPT ![x] = @ + 1]
      BY <1>0, <3>1, <3>3 DEF Pending
    <3> QED BY <2>1, <3>2, <3>3
  <2>3. \A f \in Functions : Awaited(f) => Awaited(f)'
    BY <2>2 DEF Awaited
  <2>4. ASSUME prep'.index # prep.index, NEW f \in FunctionsOf(x)
        PROVE  Awaited(f)'
    BY <2>2, <2>4 DEF Awaited, FunctionsOf
  <2>5. \A y \in Targets : FunctionsOf(y) \subseteq Functions
    BY DEF FunctionsOf, Targets
  <2>6. prep.index \subseteq Targets
    BY <1>0 DEF Prep
  <2> QED BY <1>0, <1>5, <2>1, <2>3, <2>4, <2>5, <2>6 DEF IndexHolds, Enqueue
<1>6. CASE FinishPrepJob \/ PrepAborts
  BY <1>6 DEF FinishPrepJob, PrepAborts, NoPrep, IndexHolds
<1>7. CASE StartDiffFails \/ (\E x \in Targets : StartGenut(x))
  BY <1>7 DEF StartDiffFails, StartGenut, Free, IndexHolds
<1>8. CASE GenutReturns \/ GenutFails \/ (\E F \in SUBSET Functions : Push(F))
  BY <1>0, <1>8 DEF GenutReturns, GenutFails, Push, IndexHolds, Awaited, Pending
<1>9. CASE UserStep
  <2>1. ASSUME NEW x \in Targets, Submit(x)
        PROVE  IndexHolds'
    <3>1. prep'.kind # "none" => head' = head
      BY <1>0, <2>1 DEF Submit, InOrder
    <3> QED BY <1>0, <2>1, <3>1 DEF Submit, IndexHolds, Awaited, Pending
  <2>2. CASE CancelQueued
    <3> SUFFICES ASSUME prep'.kind # "none", NEW x \in prep'.index, NEW f \in FunctionsOf(x)
                 PROVE  served'[f] = head'
      BY DEF IndexHolds
    <3>1. f \in Functions /\ prep' = prep /\ head' = head /\ head # None
      BY <1>0, <2>2 DEF CancelQueued, InOrder, Prep, FunctionsOf, Targets
    <3>2. Awaited(f) \/ served[f] = head
      BY <1>0, <3>1 DEF IndexHolds
    <3> QED BY <2>2, <3>1, <3>2 DEF CancelQueued
  <2>3. CASE PullCode
    <3>1. prep'.kind = "none"
      BY <2>3 DEF PullCode, Free
    <3> QED BY <3>1 DEF IndexHolds
  <2>4. CASE \E D \in SUBSET Functions : DeleteTests(D)
    BY <1>0, <2>4 DEF DeleteTests, IndexHolds, Awaited, Pending
  <2> QED BY <1>9, <2>1, <2>2, <2>3, <2>4 DEF UserStep
<1>10. CASE UNCHANGED vars
  BY <1>0, <1>10 DEF vars, IndexHolds, Awaited, Pending
<1> QED
  BY <1>2, <1>3, <1>4, <1>5, <1>6, <1>7, <1>8, <1>9, <1>10 DEF Next, PrepStep

\* Only a pull that a job has overtaken moves the checkout under a running diff.
LEMMA HeadStep ==
  ASSUME TypeOK, InOrder, DiffAtHead, [Next]_vars, upsets' = upsets
  PROVE  DiffAtHead'
<1> USE DEF TypeOK, DiffAtHead, checkout, queue, history, budgets
<1>1. CASE StartDiff \/ StartDiffFails \/ StartScan
  BY <1>1 DEF StartDiff, StartDiffFails, StartScan, Free, MoveHead, Begin
<1>2. ASSUME NEW p \in Files, NextFile(p)
      PROVE  DiffAtHead'
  <2>1. PICK R \in SUBSET Targets :
              prep' = [prep EXCEPT !.files[p] = @ - 1, !.requests = R]
    BY <1>2, NextFileTakes
  <2>2. prep'.kind = prep.kind /\ prep'.new = prep.new
    BY <2>1 DEF Prep
  <2> QED BY <1>2, <2>2 DEF NextFile
<1>3. ASSUME NEW p \in Files, SkipFile(p)
      PROVE  DiffAtHead'
  BY <1>3 DEF SkipFile
<1>4. ASSUME NEW x \in Targets, Enqueue(x)
      PROVE  DiffAtHead'
  <2>1. prep'.kind = prep.kind /\ prep'.new = prep.new
    BY <1>4 DEF Enqueue, Prep
  <2> QED BY <1>4, <2>1 DEF Enqueue
<1>5. CASE FinishPrepJob \/ PrepAborts
  BY <1>5 DEF FinishPrepJob, PrepAborts, NoPrep
<1>6. CASE (\E x \in Targets : StartGenut(x)) \/ PullCode
  BY <1>6 DEF StartGenut, PullCode, Free
<1>7. CASE \E x \in Targets : Submit(x)
  BY <1>7 DEF Submit, InOrder
<1>8. CASE \/ GenutReturns \/ GenutFails \/ CancelQueued
           \/ (\E F \in SUBSET Functions : Push(F))
           \/ (\E D \in SUBSET Functions : DeleteTests(D)) \/ UNCHANGED vars
  BY <1>8 DEF GenutReturns, GenutFails, CancelQueued, Push, DeleteTests, vars
<1> QED
  BY <1>1, <1>2, <1>3, <1>4, <1>5, <1>6, <1>7, <1>8 DEF Next, PrepStep, UserStep

-----------------------------------------------------------------------------
(* What the baseline promises *)

\* A change at or below c of function f is dealt with.
Dealt(f, c) == served[f] >= c \/ Awaited(f)

\* A step that only adds to what is dealt with, and moves neither the baseline nor a
\* preparation job, keeps the promise.
LEMMA NothingForgotten ==
  ASSUME TypeOK, ChangesServed, RangeCovered,
         UNCHANGED <<touched, baseline, prep, first>>,
         \A f \in Functions : \A c \in Commits :
           /\ \/ baseline # None /\ c <= baseline
              \/ prep.kind = "diff" /\ c <= prep.new
           /\ Dealt(f, c)
           => Dealt(f, c)'
  PROVE  ChangesServed' /\ RangeCovered'
BY DEF ChangesServed, RangeCovered, Dealt, Watched

\* The same for a step after which no diff runs.
LEMMA NothingForgottenIdle ==
  ASSUME TypeOK, ChangesServed,
         UNCHANGED <<touched, baseline, first>>, prep'.kind # "diff",
         \A f \in Functions : \A c \in Commits :
           baseline # None /\ c <= baseline /\ Dealt(f, c) => Dealt(f, c)'
  PROVE  ChangesServed' /\ RangeCovered'
BY DEF ChangesServed, RangeCovered, Dealt, Watched

\* A diff starts with every changed file of the list before it.
LEMMA StartDiffCovers ==
  ASSUME TypeOK, InOrder, DiffAtHead, ChangesServed, RangeCovered, StartDiff
  PROVE  ChangesServed' /\ RangeCovered'
<1> USE DEF checkout, queue, history, budgets
<1>1. PICK h \in Updated :
       /\ MoveHead(h)
       /\ \/ /\ baseline = None
             /\ baseline' = h /\ first' = h
             /\ UNCHANGED prep
          \/ /\ baseline = h
             /\ UNCHANGED <<baseline, first, prep>>
          \/ /\ baseline \notin {None, h}
             /\ Begin("diff", h, [p \in Files |->
                        IF AutoList[p] > 0 /\ Changed(p, baseline, h) # {} THEN 1 ELSE 0])
             /\ UNCHANGED <<baseline, first>>
  BY DEF StartDiff
<1>2. /\ UNCHANGED <<touched, queued, manual, served>>
      /\ prep.kind = "none"
  BY DEF StartDiff, Free
<1>3. \A f \in Functions : \A c \in Commits : Dealt(f, c) => Dealt(f, c)'
  BY <1>2 DEF Dealt, Awaited, Pending
<1>4. CASE baseline = None /\ baseline' = h /\ first' = h /\ UNCHANGED prep
  <2>1. ChangesServed'
    BY <1>4, <1>1 DEF TypeOK, Updated, ChangesServed
  <2> QED BY <2>1, <1>2, <1>4 DEF RangeCovered
<1>5. CASE UNCHANGED <<baseline, first, prep>>
  BY <1>2, <1>3, <1>5, NothingForgotten
<1>6. CASE /\ Begin("diff", h, [p \in Files |->
                        IF AutoList[p] > 0 /\ Changed(p, baseline, h) # {} THEN 1 ELSE 0])
           /\ UNCHANGED <<baseline, first>>
  <2>1. ChangesServed'
    BY <1>2, <1>3, <1>6 DEF ChangesServed, Dealt, Watched
  <2>2. ASSUME NEW f \in Watched, NEW c \in Commits,
               baseline < c, c <= h, f \in touched[c]
        PROVE  prep'.files[FileOf[f]] = 1
    <3>1. f \in Functions /\ FileOf[f] \in Files /\ AutoList[FileOf[f]] > 0
      BY DEF Watched
    <3>2. f \in Changed(FileOf[f], baseline, h)
      BY <2>2, <3>1 DEF Changed, FunctionsOf
    <3> QED BY <1>6, <3>1, <3>2 DEF Begin
  <2>3. prep'.new = h
    BY <1>6 DEF Begin
  <2>4. RangeCovered'
    BY <1>2, <1>6, <2>2, <2>3 DEF RangeCovered, Watched
  <2> QED BY <2>1, <2>4
<1> QED BY <1>1, <1>4, <1>5, <1>6

\* The next file of a diff asks for every changed function of it: on a tree without
\* patches the functions of the diff are those of the commits.
LEMMA NextFileCovers ==
  ASSUME TypeOK, ~HasPatches, DiffAtHead, ChangesServed, RangeCovered, NEW p \in Files, NextFile(p)
  PROVE  ChangesServed' /\ RangeCovered'
<1> USE DEF checkout, queue, history, budgets
<1>1. UNCHANGED <<touched, queued, manual, served, baseline, first>> /\ prep.requests = {}
  BY DEF NextFile
<1>2. \A f \in Functions : \A c \in Commits : Dealt(f, c) => Dealt(f, c)'
  BY <1>1 DEF Dealt, Awaited, Pending
<1>3. PICK R \in SUBSET Targets :
            prep' = [prep EXCEPT !.files[p] = @ - 1, !.requests = R]
  BY NextFileTakes
<1>4. /\ prep'.kind = prep.kind /\ prep'.new = prep.new
      /\ prep'.requests = R
      /\ \A q \in Files : q # p => prep'.files[q] = prep.files[q]
  BY <1>3 DEF TypeOK, Prep
<1>5. CASE prep.kind # "diff"
  BY <1>1, <1>2, <1>4, <1>5, NothingForgottenIdle
<1>6. CASE prep.kind = "diff"
  <2>1. prep'.requests = Changed(p, baseline, prep.new)
    <3>1. ~patched /\ prep.kind # "scan"
      BY <1>6 DEF TypeOK
    <3>0. head = prep.new
      BY <1>6 DEF DiffAtHead
    <3>2. \E S \in {Changed(p, baseline, prep.new)} :
             prep' = [prep EXCEPT !.files[p] = @ - 1, !.requests = S]
      BY <3>0, <3>1 DEF NextFile
    <3> QED BY <3>2 DEF TypeOK, Prep
  <2>2. ChangesServed'
    BY <1>1, <1>2 DEF ChangesServed, Dealt, Watched
  <2>3. ASSUME NEW f \in Watched, NEW c \in Commits,
               baseline < c, c <= prep.new, f \in touched[c]
        PROVE  Dealt(f, c)' \/ f \in prep'.requests \/ prep'.files[FileOf[f]] > 0
    <3>0. f \in Functions /\ FileOf[f] \in Files
      BY DEF Watched
    <3>1. CASE FileOf[f] = p
      BY <2>1, <2>3, <3>0, <3>1 DEF Changed, FunctionsOf
    <3>2. CASE FileOf[f] # p
      <4>1. Dealt(f, c) \/ prep.files[FileOf[f]] > 0
        BY <1>1, <1>6, <2>3 DEF RangeCovered, Dealt
      <4> QED BY <1>2, <1>4, <3>0, <3>2, <4>1
    <3> QED BY <3>1, <3>2
  <2>4. RangeCovered'
    BY <1>1, <1>4, <2>3 DEF RangeCovered, Dealt, Watched
  <2> QED BY <2>2, <2>4
<1> QED BY <1>5, <1>6

\* A request that is dropped is dealt with by a pending job, or was by the user who took
\* that job away.
LEMMA EnqueueCovers ==
  ASSUME TypeOK, InOrder, DiffAtHead, IndexHolds, ChangesServed, RangeCovered,
         NEW x \in Targets, Enqueue(x)
  PROVE  ChangesServed' /\ RangeCovered'
<1> USE DEF checkout, queue, history, budgets
<1>1. UNCHANGED <<touched, head, manual, served, baseline, first>>
  BY DEF Enqueue
<1>2. /\ prep'.kind = prep.kind /\ prep'.new = prep.new /\ prep'.files = prep.files
      /\ prep'.requests = prep.requests \ {x}
  BY DEF Enqueue, TypeOK, Prep
<1>3. \/ queued' = queued /\ (Duplicate(x, prep.index) \/ FileFor(x) \notin CompileDb)
      \/ queued' = [queued EXCEPT ![x] = @ + 1]
  BY DEF Enqueue
<1>4. Pending \subseteq Pending'
  BY <1>1, <1>3 DEF Pending, TypeOK
<1>5. \A f \in Functions : \A c \in Commits : Dealt(f, c) => Dealt(f, c)'
  BY <1>1, <1>4 DEF Dealt, Awaited
<1>6. ChangesServed'
  BY <1>1, <1>5 DEF ChangesServed, Dealt, Watched
<1>7. ASSUME prep.kind = "diff", NEW f \in Watched, NEW c \in Commits,
             c <= prep.new, f = x
      PROVE  Dealt(f, c)'
  <2>0. /\ f \in Functions /\ f \notin Files
        /\ FileFor(f) \in CompileDb
        /\ FunctionsOf(f) = {f} /\ f \in FunctionsOf(FileOf[f]) /\ FileOf[f] \in Files
    BY DEF Watched, FileFor, FunctionsOf
  <2>1. CASE Duplicate(x, prep.index)
    <3>1. PICK y \in prep.index : f \in FunctionsOf(y)
      BY <1>7, <2>0, <2>1 DEF Duplicate
    <3>2. Awaited(f) \/ served[f] = head
      BY <1>7, <3>1 DEF IndexHolds
    <3>3. served[f] = head => served[f] >= c
      BY <1>7, <2>0 DEF InOrder, DiffAtHead, TypeOK
    <3> QED BY <1>5, <2>0, <3>2, <3>3 DEF Dealt
  <2>2. CASE queued' = [queued EXCEPT ![x] = @ + 1]
    <3>1. queued'[x] > 0
      BY <2>2 DEF TypeOK
    <3> QED BY <1>7, <3>1 DEF Dealt, Awaited, Pending
  <2> QED BY <1>3, <1>7, <2>0, <2>1, <2>2
<1>8. ASSUME prep.kind = "diff", NEW f \in Watched, NEW c \in Commits,
             baseline < c, c <= prep.new, f \in touched[c]
      PROVE  Dealt(f, c)' \/ f \in prep'.requests \/ prep'.files[FileOf[f]] > 0
  <2>1. f \in Functions
    BY DEF Watched
  <2>2. Dealt(f, c) \/ f \in prep.requests \/ prep.files[FileOf[f]] > 0
    BY <1>8 DEF RangeCovered, Dealt
  <2> QED BY <1>2, <1>5, <1>7, <1>8, <2>1, <2>2
<1>9. RangeCovered'
  BY <1>1, <1>2, <1>8 DEF RangeCovered, Dealt, Watched
<1> QED BY <1>6, <1>9

\* A diff that has looked at every file has dealt with its whole range.
LEMMA FinishCovers ==
  ASSUME TypeOK, InOrder, DiffAtHead, ChangesServed, RangeCovered, FinishPrepJob
  PROVE  ChangesServed' /\ RangeCovered'
<1> USE DEF checkout, queue, history, budgets
<1>1. /\ UNCHANGED <<touched, queued, manual, served, first>>
      /\ prep'.kind = "none"
      /\ baseline' = IF prep.kind = "diff" THEN prep.new ELSE baseline
  BY DEF FinishPrepJob, NoPrep
<1>2. \A f \in Functions : \A c \in Commits : Dealt(f, c) => Dealt(f, c)'
  BY <1>1 DEF Dealt, Awaited, Pending
<1>3. CASE prep.kind # "diff"
  BY <1>1, <1>2, <1>3, NothingForgottenIdle
<1>4. CASE prep.kind = "diff"
  <2>1. ASSUME NEW f \in Watched, NEW c \in Commits,
               first < c, c <= prep.new, f \in touched[c]
        PROVE  Dealt(f, c)'
    <3>1. f \in Functions /\ FileOf[f] \in Files
      BY DEF Watched
    <3>2. f \notin prep.requests /\ ~(prep.files[FileOf[f]] > 0)
      BY <3>1 DEF FinishPrepJob, Exhausted
    <3>3. baseline \in Commits /\ baseline # None
      BY <1>4 DEF InOrder, DiffAtHead, TypeOK
    <3>4. CASE c <= baseline
      BY <1>2, <2>1, <3>1, <3>3, <3>4 DEF ChangesServed, Dealt
    <3>5. CASE baseline < c
      BY <1>2, <1>4, <2>1, <3>1, <3>2, <3>5 DEF RangeCovered, Dealt
    <3> QED BY <3>3, <3>4, <3>5
  <2>2. ChangesServed'
    BY <1>1, <1>4, <2>1 DEF ChangesServed, Dealt, Watched
  <2> QED BY <1>1, <2>2 DEF RangeCovered
<1> QED BY <1>3, <1>4

\* A GENUT job that takes a request from the queue works on a checkout that contains every
\* change the request was for.
LEMMA StartGenutServes ==
  ASSUME TypeOK, InOrder, DiffAtHead, ChangesServed, RangeCovered, NEW x \in Targets, StartGenut(x)
  PROVE  ChangesServed' /\ RangeCovered'
<1> USE DEF checkout, queue, history, budgets
<1>1. UNCHANGED <<touched, baseline, prep, first>> /\ prep.kind = "none"
  BY DEF StartGenut, Free
<1>2. PICK h \in Updated :
        served' = [f \in Functions |-> IF f \in FunctionsOf(x) THEN h ELSE served[f]]
  BY DEF StartGenut
<1>3. \A y \in Pending : y # x => y \in Pending'
  BY DEF StartGenut, Pending, TypeOK
<1>4. ASSUME NEW f \in Functions, NEW c \in Commits,
             baseline # None, c <= baseline, Dealt(f, c)
      PROVE  Dealt(f, c)'
  <2>1. CASE f \in FunctionsOf(x)
    <3>1. h \in Commits /\ baseline <= h
      BY <1>4 DEF TypeOK, Updated
    <3>2. served'[f] = h
      BY <1>2, <2>1
    <3>3. served'[f] >= c
      BY <1>4, <3>1, <3>2 DEF TypeOK
    <3> QED BY <3>3 DEF Dealt
  <2>2. CASE f \notin FunctionsOf(x)
    <3>1. f # x /\ FileOf[f] # x
      BY <2>2 DEF FunctionsOf
    <3>2. served'[f] = served[f]
      BY <1>2, <2>2
    <3>3. Awaited(f) => Awaited(f)'
      BY <1>3, <3>1 DEF Awaited
    <3> QED BY <1>4, <3>2, <3>3 DEF Dealt
  <2> QED BY <2>1, <2>2
<1> QED BY <1>1, <1>4, NothingForgottenIdle

\* A cancel leaves the changes of the jobs it takes away to the user.
LEMMA CancelServes ==
  ASSUME TypeOK, InOrder, DiffAtHead, ChangesServed, RangeCovered, CancelQueued
  PROVE  ChangesServed' /\ RangeCovered'
<1> USE DEF checkout, queue, history, budgets
<1>1. UNCHANGED <<touched, baseline, prep, first>>
  BY DEF CancelQueued
<1>2. ASSUME NEW f \in Functions, NEW c \in Commits,
             \/ baseline # None /\ c <= baseline
             \/ prep.kind = "diff" /\ c <= prep.new,
             Dealt(f, c)
      PROVE  Dealt(f, c)'
  <2>1. head # None /\ head \in Commits /\ c <= head
    BY <1>2 DEF TypeOK, InOrder, DiffAtHead
  <2>2. served'[f] = IF Awaited(f) THEN head ELSE served[f]
    BY <2>1 DEF CancelQueued
  <2> QED BY <1>2, <2>1, <2>2 DEF Dealt, TypeOK
<1> QED BY <1>1, <1>2, NothingForgotten

\* A new commit is beyond the checkout.
LEMMA PushServes ==
  ASSUME TypeOK, InOrder, DiffAtHead, ChangesServed, RangeCovered,
         NEW F \in SUBSET Functions, Push(F)
  PROVE  ChangesServed' /\ RangeCovered'
<1> USE DEF checkout, queue, history, budgets
<1>1. UNCHANGED <<head, baseline, prep, first, queued, manual, served>>
  BY DEF Push
<1>2. \A f \in Functions : \A c \in Commits : Dealt(f, c) => Dealt(f, c)'
  BY <1>1 DEF Dealt, Awaited, Pending
<1>3. \A c \in Commits : c <= remote => touched'[c] = touched[c]
  BY DEF Push, TypeOK
<1>4. ChangesServed'
  BY <1>1, <1>2, <1>3 DEF ChangesServed, Dealt, Watched, TypeOK
<1>5. prep.kind = "diff" => prep.new <= remote
  BY DEF InOrder, DiffAtHead, TypeOK
<1>6. RangeCovered'
  <2> SUFFICES ASSUME prep'.kind = "diff", NEW f \in Watched, NEW c \in Commits,
                      baseline < c, c <= prep.new, f \in touched'[c]
               PROVE  \/ Dealt(f, c)' \/ f \in prep.requests
                      \/ prep.files[FileOf[f]] > 0
    BY <1>1 DEF RangeCovered, Dealt, Watched
  <2>1. f \in touched[c] /\ f \in Functions
    BY <1>1, <1>3, <1>5 DEF Watched, TypeOK, Prep
  <2> QED BY <1>1, <1>2, <2>1 DEF RangeCovered, Dealt
<1> QED BY <1>4, <1>6

\* No step without an upset breaks the promise of the baseline.
LEMMA ServedStep ==
  ASSUME TypeOK, InOrder, DiffAtHead, IndexHolds, ChangesServed, RangeCovered,
         [Next]_vars, ~HasPatches, upsets' = upsets
  PROVE  ChangesServed' /\ RangeCovered'
<1> USE DEF checkout, queue, history, budgets
<1>1. CASE StartDiff
  BY <1>1, StartDiffCovers DEF StartDiff
<1>2. CASE StartDiffFails \/ (\E p \in Files : SkipFile(p))
  BY <1>2 DEF StartDiffFails, SkipFile, TypeOK
<1>3. ASSUME NEW p \in Files, NextFile(p)
      PROVE  ChangesServed' /\ RangeCovered'
  BY <1>3, NextFileCovers DEF NextFile
<1>4. ASSUME NEW x \in Targets, Enqueue(x)
      PROVE  ChangesServed' /\ RangeCovered'
  BY <1>4, EnqueueCovers DEF Enqueue
<1>5. CASE FinishPrepJob
  BY <1>5, FinishCovers DEF FinishPrepJob
<1>6. ASSUME NEW x \in Targets, StartGenut(x)
      PROVE  ChangesServed' /\ RangeCovered'
  BY <1>6, StartGenutServes DEF StartGenut
<1>7. CASE CancelQueued
  BY <1>7, CancelServes DEF CancelQueued
<1>8. ASSUME NEW F \in SUBSET Functions, Push(F)
      PROVE  ChangesServed' /\ RangeCovered'
  BY <1>8, PushServes DEF Push
<1>9. CASE StartScan \/ PrepAborts
  <2>1. /\ UNCHANGED <<touched, baseline, first, queued, manual, served, upsets>>
        /\ prep'.kind # "diff"
    BY <1>9 DEF StartScan, PrepAborts, Begin, NoPrep
  <2>2. \A f \in Functions : \A c \in Commits : Dealt(f, c) => Dealt(f, c)'
    BY <2>1 DEF Dealt, Awaited, Pending
  <2> QED BY <2>1, <2>2, NothingForgottenIdle
<1>10. CASE \/ GenutReturns \/ GenutFails \/ PullCode
            \/ (\E D \in SUBSET Functions : DeleteTests(D)) \/ UNCHANGED vars
  <2>1. UNCHANGED <<touched, baseline, prep, first, queued, manual, served, upsets>>
    BY <1>10 DEF GenutReturns, GenutFails, PullCode, DeleteTests, Request, vars
  <2>2. \A f \in Functions : \A c \in Commits : Dealt(f, c) => Dealt(f, c)'
    BY <2>1 DEF Dealt, Awaited, Pending
  <2> QED BY <2>1, <2>2, NothingForgotten
<1>11. ASSUME NEW x \in Targets, Submit(x)
       PROVE  ChangesServed' /\ RangeCovered'
  <2>1. UNCHANGED <<touched, baseline, prep, first, queued, served, upsets>>
    BY <1>11 DEF Submit, Request
  <2>2. manual \subseteq manual'
    BY <1>11 DEF Submit
  <2>3. \A f \in Functions : \A c \in Commits : Dealt(f, c) => Dealt(f, c)'
    BY <2>1, <2>2 DEF Dealt, Awaited, Pending
  <2> QED BY <2>1, <2>3, NothingForgotten
<1> QED
  BY <1>1, <1>2, <1>3, <1>4, <1>5, <1>6, <1>7, <1>8, <1>9, <1>10, <1>11
  DEF Next, PrepStep, UserStep

\* Upsets are only counted up.
LEMMA UpsetsStay ==
  ASSUME ChangesAreTracked, [Next]_vars, upsets' = 0
  PROVE  upsets' = upsets
<1>1. upsets \in Nat
  BY DEF ChangesAreTracked, TypeOK
<1>2. upsets' = upsets \/ upsets' = upsets + 1
  BY DEF Next, PrepStep, UserStep, StartDiff, StartDiffFails, StartScan, NextFile, SkipFile,
         Enqueue, FinishPrepJob, PrepAborts, StartGenut, GenutReturns, GenutFails, Submit,
         CancelQueued, DeleteTests, PullCode, Push, Request, vars, budgets
<1> QED BY <1>1, <1>2

-----------------------------------------------------------------------------
\* On a product without patches the inductive invariant holds: whatever the order of jobs,
\* pushes, pulls, cancels and failures, every change up to the baseline is generated or
\* awaited, and a running diff still sees the rest of its range.
THEOREM CyclesAreTracked ==
  ASSUME ~HasPatches
  PROVE  Spec => []ChangesAreTracked
<1>1. ASSUME ChangesAreTracked, [Next]_vars
      PROVE  ChangesAreTracked'
  <2>1. TypeOK' /\ InOrder'
    BY <1>1, TypeStep, InOrderStep DEF ChangesAreTracked
  <2>2. ASSUME upsets' = 0
        PROVE  DiffAtHead' /\ IndexHolds' /\ ChangesServed' /\ RangeCovered'
    <3>1. upsets' = upsets
      BY <1>1, <2>2, UpsetsStay
    <3> QED
      BY <1>1, <2>2, <3>1, HeadStep, IndexStep, ServedStep DEF ChangesAreTracked
  <2> QED BY <2>1, <2>2 DEF ChangesAreTracked
<1> QED BY InitTracked, <1>1, PTL DEF Spec

\* As long as no error is swallowed and no pull overtaken the baseline passes no change that is
\* neither generated nor awaited (run_diff_job).
THEOREM CyclesMissNoChange ==
  ASSUME ~HasPatches
  PROVE  Spec => []NoChangeMissed
<1>1. ChangesAreTracked => NoChangeMissed
  BY DEF ChangesAreTracked, NoChangeMissed
<1> QED BY CyclesAreTracked, <1>1, PTL

-----------------------------------------------------------------------------
(* Nothing is queued twice *)

\* The index of a running preparation job knows every job that is queued; without such a
\* job there are no requests.
QueueIsIndexed ==
  IF prep.kind = "none" THEN prep.requests = {}
                        ELSE \A x \in Targets : queued[x] > 0 => x \in prep.index

\* The inductive invariant behind NothingQueuedTwice.
QueueInv == TypeOK /\ InOrder /\ QueueIsIndexed /\ NothingQueuedTwice

\* A step that queues nothing, and leaves the index as it is or has read it anew, doubles
\* nothing.
LEMMA NothingAdded ==
  ASSUME QueueInv, TypeOK',
         \A x \in Targets : queued'[x] <= queued[x],
         \/ prep' \in {prep, NoPrep}
         \/ prep.kind # "none" /\ prep'.kind # "none" /\ prep'.index = prep.index
         \/ queued' = queued /\ prep'.kind # "none" /\ prep'.index = Pending
  PROVE  QueueIsIndexed' /\ NothingQueuedTwice'
<1>1. \A x \in Targets : queued[x] \in Nat /\ queued'[x] \in Nat
  BY DEF QueueInv, TypeOK
<1>2. NothingQueuedTwice'
  <2>1. \A f \in Functions : FileOf[f] \in Targets /\ f \in Targets
    BY DEF Targets
  <2> QED BY <1>1, <2>1 DEF QueueInv, NothingQueuedTwice
<1>3. QueueIsIndexed'
  BY <1>1 DEF QueueInv, QueueIsIndexed, Pending, NoPrep
<1> QED BY <1>2, <1>3

\* A request is queued only when the index has nothing in its place.
LEMMA EnqueueApart ==
  ASSUME QueueInv, NEW x \in Targets, Enqueue(x)
  PROVE  QueueIsIndexed' /\ NothingQueuedTwice'
<1>1. prep \in Prep /\ prep.kind # "none" /\ queued \in [Targets -> Nat]
  BY DEF QueueInv, TypeOK, QueueIsIndexed, Enqueue
<1>2. CASE queued' = queued /\ prep' = [prep EXCEPT !.requests = @ \ {x}]
  BY <1>1, <1>2 DEF QueueInv, QueueIsIndexed, NothingQueuedTwice, Prep
<1>3. CASE /\ ~Duplicate(x, prep.index)
           /\ prep' = [prep EXCEPT !.requests = @ \ {x}, !.index = @ \cup {x}]
           /\ queued' = [queued EXCEPT ![x] = @ + 1]
  <2>1. \A y \in Targets : queued[y] > 0 => y \in prep.index
    BY <1>1, Zenon DEF QueueInv, QueueIsIndexed
  <2>2. prep'.kind = prep.kind /\ prep'.index = prep.index \cup {x}
    BY <1>1, <1>3 DEF Prep
  <2>3. \A y \in Targets : queued'[y] = IF y = x THEN queued[y] + 1 ELSE queued[y]
    BY <1>1, <1>3
  <2>4. QueueIsIndexed'
    <3>1. prep'.kind # "none"
      BY <1>1, <2>2
    <3>2. \A y \in Targets : queued'[y] > 0 => y \in prep'.index
      BY <2>1, <2>2, <2>3
    <3> QED BY <3>1, <3>2 DEF QueueIsIndexed
  <2>5. \A y \in Targets : queued[y] \in Nat /\ (y \notin prep.index => queued[y] = 0)
    BY <1>1, <2>1
  <2>6. CASE x \in Files
    <3>1. x \notin prep.index
          /\ \A f \in Functions : FileOf[f] = x => f \notin prep.index
      BY <1>3, <2>6 DEF Duplicate, FileFor, Targets
    <3>2. queued[x] = 0 /\ \A f \in Functions : FileOf[f] = x => queued[f] = 0
      BY <2>5, <3>1 DEF Targets
    <3>3. x \notin Functions
      BY <2>6
    <3> QED BY <2>3, <2>4, <2>5, <3>2, <3>3 DEF QueueInv, NothingQueuedTwice, Targets
  <2>7. CASE x \notin Files
    <3>1. x \in Functions /\ x \notin prep.index /\ FileOf[x] \notin prep.index
      BY <1>3, <2>7 DEF Duplicate, Targets
    <3>2. queued[x] = 0 /\ queued[FileOf[x]] = 0
      BY <2>5, <3>1 DEF Targets
    <3>3. \A f \in Functions : FileOf[f] # x
      BY <2>7
    <3> QED BY <2>3, <2>4, <2>5, <3>1, <3>2, <3>3
            DEF QueueInv, NothingQueuedTwice, Targets
  <2> QED BY <2>6, <2>7
<1> QED BY <1>2, <1>3 DEF Enqueue

\* Every step preserves QueueInv.
LEMMA QueueStep ==
  ASSUME QueueInv, [Next]_vars
  PROVE  QueueInv'
<1> USE DEF queue
<1>1. TypeOK' /\ InOrder'
  BY TypeStep, InOrderStep DEF QueueInv
<1> SUFFICES QueueIsIndexed' /\ NothingQueuedTwice'
  BY <1>1 DEF QueueInv
<1>2. \A x \in Targets : queued[x] \in Nat
  BY DEF QueueInv, TypeOK
<1>3. CASE StartDiff
  BY <1>1, <1>2, <1>3, NothingAdded DEF StartDiff, Begin, Free
<1>4. CASE StartScan
  BY <1>1, <1>2, <1>4, NothingAdded DEF StartScan, Begin
<1>5. ASSUME NEW p \in Files, NextFile(p) \/ SkipFile(p)
      PROVE  QueueIsIndexed' /\ NothingQueuedTwice'
  <2>1. prep'.kind = prep.kind /\ prep'.index = prep.index
    BY <1>5, NextFileTakes DEF QueueInv, TypeOK, SkipFile, Prep
  <2>2. queued' = queued /\ prep.kind # "none"
    BY <1>5 DEF NextFile, SkipFile
  <2> QED BY <1>1, <1>2, <2>1, <2>2, NothingAdded
<1>6. CASE FinishPrepJob \/ PrepAborts
  BY <1>1, <1>2, <1>6, NothingAdded DEF FinishPrepJob, PrepAborts
<1>7. ASSUME NEW x \in Targets, StartGenut(x)
      PROVE  QueueIsIndexed' /\ NothingQueuedTwice'
  <2>1. queued \in [Targets -> Nat]
    BY DEF QueueInv, TypeOK
  <2>2. \A y \in Targets : queued'[y] <= queued[y]
    BY <1>2, <1>7, <2>1 DEF StartGenut
  <2> QED BY <1>1, <1>7, <2>2, NothingAdded DEF StartGenut, Free
<1>8. CASE CancelQueued
  <2>1. \A y \in Targets : queued'[y] <= queued[y]
    BY <1>2, <1>8 DEF CancelQueued
  <2> QED BY <1>1, <1>8, <2>1, NothingAdded DEF CancelQueued
<1>9. CASE \/ StartDiffFails \/ GenutReturns \/ GenutFails \/ PullCode
           \/ (\E x \in Targets : Submit(x))
           \/ (\E D \in SUBSET Functions : DeleteTests(D))
           \/ (\E F \in SUBSET Functions : Push(F)) \/ UNCHANGED vars
  <2>1. queued' = queued /\ prep' = prep
    BY <1>9 DEF StartDiffFails, GenutReturns, GenutFails, PullCode, Submit, DeleteTests,
                Push, vars
  <2> QED BY <1>1, <1>2, <2>1, NothingAdded
<1> QED
  BY <1>1, <1>3, <1>4, <1>5, <1>6, <1>7, <1>8, <1>9, EnqueueApart
  DEF Next, PrepStep, UserStep

\* Whatever users queue, cancel or pull meanwhile and however jobs end: no two jobs of
\* preparation jobs wait for the same function or file, nor one for a function next to one
\* for its whole file (EnqueueContext).
THEOREM NothingIsDoubled == Spec => []NothingQueuedTwice
<1>1. Init => QueueInv
  BY InitTracked DEF ChangesAreTracked, QueueInv, Init, QueueIsIndexed, NothingQueuedTwice,
                     NoPrep, Targets
<1>2. QueueInv => NothingQueuedTwice
  BY DEF QueueInv
<1> QED BY <1>1, <1>2, QueueStep, PTL DEF Spec

=============================================================================
