------------------------------ MODULE AutoCycle ------------------------------
(***************************************************************************)
(* The automatic generation of tests for one product: the diff job that    *)
(* queues a GENUT job for every function changed since the baseline        *)
(* commit, the scan job that queues one for every function or file without *)
(* tests, and what they share with users and GENUT jobs: the checkout, the *)
(* queue and the folders of tests.                                         *)
(*                                                                         *)
(* Jobs of a product exclude each other (see ExclusiveKeys), so at most    *)
(* one preparation or GENUT job is active.  A step of a preparation job is *)
(* what it does up to its next commit.                                     *)
(***************************************************************************)
EXTENDS Naturals, FiniteSets

CONSTANTS
  Files, Functions,
  FileOf,        \* FileOf[f] is the file function f is defined in
  AutoList,      \* how often auto_file_list names a file
  CompileDb,     \* the files compile_commands.json knows
  HasPatches,    \* TRUE: the product has patches, applied by every GENUT job
  None,
  MaxCommits,    \* bound: commits pushed to the repository
  MaxClients,    \* bound: user requests
  MaxFaults,     \* bound: preparation and GENUT jobs that end early
  MaxUpsets      \* bound: errors that a preparation job swallows, and pulls that a
                 \* job overtakes

ASSUME CycleAssumption ==
  /\ Files \cap Functions = {}
  /\ FileOf \in [Functions -> Files]
  /\ AutoList \in [Files -> Nat]
  /\ CompileDb \subseteq Files
  /\ HasPatches \in BOOLEAN
  /\ None \notin Files \cup Functions \cup Nat
  /\ MaxCommits \in Nat
  /\ MaxClients \in Nat
  /\ MaxFaults \in Nat
  /\ MaxUpsets \in Nat

VARIABLES
  touched,    \* touched[c]: the functions commit c changes; no commit undoes another
  remote,     \* the newest commit of the repository
  head,       \* HEAD of the checkout, None before it is cloned
  patched,    \* the patches are applied to the working tree
  baseline,   \* products.last_scanned_commit
  queued,     \* queued[x]: jobs preparation jobs queued for file or function x
  manual,     \* files and functions users queued a job for
  genut,      \* what the running GENUT job generates, or None
  prep,       \* the running preparation job
  tests,      \* functions with a test in the success or the failure folder
  first,      \* history: the first baseline
  served,     \* history: the newest commit at which a GENUT job took a function up,
              \* or a user took its job away
  clients, faults, upsets

checkout == <<head, patched>>
queue    == <<queued, manual>>
history  == <<first, served>>
budgets  == <<clients, faults, upsets>>
vars == <<touched, remote, checkout, baseline, queue, genut, prep, tests, history, budgets>>

-----------------------------------------------------------------------------
(* Values and queries *)

Targets == Files \cup Functions
Commits == 0..MaxCommits

FunctionsOf(x) == IF x \in Files THEN {f \in Functions : FileOf[f] = x} ELSE {x}
FileFor(x)     == IF x \in Files THEN x ELSE FileOf[x]

Prep == [kind     : {"none", "diff", "scan"},
         new      : Commits,              \* HEAD as a diff read it
         files    : [Files -> Nat],       \* files still to look at
         requests : SUBSET Targets,       \* what the current file still asks for
         index    : SUBSET Targets,       \* EnqueueContext._pending
         covered  : SUBSET Functions]     \* tests as a scan read them

NoPrep == [kind |-> "none", new |-> 0, files |-> [p \in Files |-> 0],
           requests |-> {}, index |-> {}, covered |-> {}]

\* No job of the product runs.
Free == genut = None /\ prep.kind = "none"

Pending == {x \in Targets : queued[x] > 0} \cup manual

\* Some pending job generates a test for f.
Awaited(f) == f \in Pending \/ FileOf[f] \in Pending

\* The functions of a file changed between two commits.
Changed(p, old, new) ==
  {f \in FunctionsOf(p) : \E c \in Commits : old < c /\ c <= new /\ f \in touched[c]}

\* mutant: a job for the whole file does not stand in for one of its functions
SameRequestOnly(x, index) == x \in index

\* pending_job_id: does a pending job make a request for x superfluous?
Duplicate(x, index) ==
  IF x \in Files THEN \E y \in index : FileFor(y) = x
                 ELSE x \in index \/ FileOf[x] \in index

-----------------------------------------------------------------------------
(* The checkout *)

\* ensure_checkout clones, or updates to the newest commit; a failure to update is
\* ignored and the old checkout used.
Updated == IF head = None THEN {remote} ELSE {head, remote}

\* An update resets the tree; if there is nothing to update it is left as it is,
\* applied patches included.
MoveHead(h) == /\ head' = h
               /\ patched' = (patched /\ h = head)

-----------------------------------------------------------------------------
(* Preparation jobs *)

Begin(kind, new, files) ==
  prep' = [kind |-> kind, new |-> new, files |-> files, requests |-> {},
           index |-> Pending, covered |-> tests]

\* run_diff_job up to the loop over the changed files.
StartDiff ==
  /\ Free
  /\ \E h \in Updated :
       /\ MoveHead(h)
       /\ \/ /\ baseline = None
             /\ baseline' = h /\ first' = h
             /\ UNCHANGED prep
          \/ /\ baseline = h
             /\ UNCHANGED <<baseline, first, prep>>
          \/ /\ baseline \notin {None, h}
             /\ Begin("diff", h, [p \in Files |->
                        IF AutoList[p] > 0 /\ Changed(p, baseline, h) # {} THEN 1 ELSE 0])
             /\ UNCHANGED <<baseline, first>>
  /\ UNCHANGED <<touched, remote, queue, genut, tests, served, budgets>>

\* git diff fails, for whatever reason: the baseline is set to HEAD.
StartDiffFails ==
  /\ Free
  /\ upsets < MaxUpsets /\ upsets' = upsets + 1
  /\ \E h \in Updated :
       /\ MoveHead(h)
       /\ baseline \notin {None, h}
       /\ baseline' = h
  /\ UNCHANGED <<touched, remote, queue, genut, prep, tests, history, clients, faults>>

\* run_scan_job up to the loop over the files; it does not update the checkout.
StartScan ==
  /\ Free
  /\ MoveHead(IF head = None THEN remote ELSE head)
  /\ Begin("scan", 0, AutoList)
  /\ UNCHANGED <<touched, remote, baseline, queue, genut, tests, history, budgets>>

\* mutant: a file with any test is complete
MissingIfNone(p) == IF FunctionsOf(p) \cap prep.covered = {} THEN {p} ELSE {}

\* What a scan asks for: the whole file if it has no test, else the functions
\* without one.
Missing(p) == IF FunctionsOf(p) \cap prep.covered = {} THEN {p}
              ELSE FunctionsOf(p) \ prep.covered

\* The next file: the line ranges of the diff are those of the HEAD it has read, the
\* functions those of the working tree, so that on a patched tree, or when HEAD has
\* moved since, they may overlap in any way.
NextFile(p) ==
  /\ prep.kind # "none" /\ prep.requests = {} /\ prep.files[p] > 0
  /\ \E R \in IF prep.kind = "scan" THEN {Missing(p)}
              ELSE IF patched \/ head # prep.new THEN SUBSET FunctionsOf(p)
              ELSE {Changed(p, baseline, prep.new)} :
       prep' = [prep EXCEPT !.files[p] = @ - 1, !.requests = R]
  /\ UNCHANGED <<touched, remote, checkout, baseline, queue, genut, tests, history, budgets>>

\* The source cannot be read: a warning, and on to the next file.
SkipFile(p) ==
  /\ prep.kind # "none" /\ prep.requests = {} /\ prep.files[p] > 0
  /\ upsets < MaxUpsets /\ upsets' = upsets + 1
  /\ prep' = [prep EXCEPT !.files[p] = @ - 1]
  /\ UNCHANGED <<touched, remote, checkout, baseline, queue, genut, tests, history,
                 clients, faults>>

\* enqueue_genut_job for one request, with its commit.
Enqueue(x) ==
  /\ x \in prep.requests
  /\ IF Duplicate(x, prep.index) \/ FileFor(x) \notin CompileDb
     THEN /\ prep' = [prep EXCEPT !.requests = @ \ {x}]
          /\ UNCHANGED queued
     ELSE /\ prep' = [prep EXCEPT !.requests = @ \ {x}, !.index = @ \cup {x}]
          /\ queued' = [queued EXCEPT ![x] = @ + 1]
  /\ UNCHANGED <<touched, remote, checkout, baseline, manual, genut, tests, history, budgets>>

Exhausted == prep.requests = {} /\ \A p \in Files : prep.files[p] = 0

\* mutant: the baseline follows the repository
FinishPrepAtRemote ==
  /\ prep.kind # "none" /\ Exhausted
  /\ baseline' = IF prep.kind = "diff" THEN remote ELSE baseline
  /\ prep' = NoPrep
  /\ UNCHANGED <<touched, remote, checkout, queue, genut, tests, history, budgets>>

\* The end of the loop: a diff advances the baseline to the HEAD it has read.
FinishPrepJob ==
  /\ prep.kind # "none" /\ Exhausted
  /\ baseline' = IF prep.kind = "diff" THEN prep.new ELSE baseline
  /\ prep' = NoPrep
  /\ UNCHANGED <<touched, remote, checkout, queue, genut, tests, history, budgets>>

\* mutant: the baseline advances in a finally
PrepAbortsAdvanced ==
  /\ prep.kind # "none"
  /\ faults < MaxFaults /\ faults' = faults + 1
  /\ baseline' = IF prep.kind = "diff" THEN prep.new ELSE baseline
  /\ prep' = NoPrep
  /\ UNCHANGED <<touched, remote, checkout, queue, genut, tests, history,
                 clients, upsets>>

\* An error that is not swallowed, a cancel between two files, or a crash.
PrepAborts ==
  /\ prep.kind # "none"
  /\ faults < MaxFaults /\ faults' = faults + 1
  /\ prep' = NoPrep
  /\ UNCHANGED <<touched, remote, checkout, baseline, queue, genut, tests, history,
                 clients, upsets>>

-----------------------------------------------------------------------------
(* GENUT jobs *)

\* A job starts with an update of the checkout and the patches.
StartGenut(x) ==
  /\ Free
  /\ \/ /\ queued[x] > 0
        /\ queued' = [queued EXCEPT ![x] = @ - 1]
        /\ UNCHANGED manual
     \/ /\ x \in manual
        /\ manual' = manual \ {x}
        /\ UNCHANGED queued
  /\ genut' = x
  /\ \E h \in Updated :
       /\ head' = h
       /\ patched' = HasPatches
       /\ served' = [f \in Functions |-> IF f \in FunctionsOf(x) THEN h ELSE served[f]]
  /\ UNCHANGED <<touched, remote, baseline, prep, tests, first, budgets>>

\* It leaves a test, good or bad, of everything it was asked for...
GenutReturns ==
  /\ genut # None
  /\ tests' = tests \cup FunctionsOf(genut)
  /\ genut' = None
  /\ UNCHANGED <<touched, remote, checkout, baseline, queue, prep, history, budgets>>

\* ...unless it fails, is canceled or interrupted before.
GenutFails ==
  /\ genut # None
  /\ faults < MaxFaults /\ faults' = faults + 1
  /\ genut' = None
  /\ UNCHANGED <<touched, remote, checkout, baseline, queue, prep, tests, history,
                 clients, upsets>>

-----------------------------------------------------------------------------
(* Users and the repository *)

Request == clients < MaxClients /\ clients' = clients + 1

\* submit_request clones what is not there yet; files that are not in the compile
\* database are left out of the job.
Submit(x) ==
  /\ Request
  /\ FileFor(x) \in CompileDb
  /\ head' = IF head = None THEN remote ELSE head
  /\ manual' = manual \cup {x}
  /\ UNCHANGED <<touched, remote, patched, baseline, queued, genut, prep, tests, history,
                 faults, upsets>>

\* cancel_all_jobs takes the queued jobs away.
CancelQueued ==
  /\ Request
  /\ served' = [f \in Functions |-> IF Awaited(f) /\ head # None THEN head ELSE served[f]]
  /\ queued' = [x \in Targets |-> 0]
  /\ manual' = {}
  /\ UNCHANGED <<touched, remote, checkout, baseline, genut, prep, tests, first,
                 faults, upsets>>

\* delete_test_file, delete_failed_tests, delete_target_tests: refused while a job uses
\* the checkout, but a job may start between that check and the deletion.
DeleteTests(D) ==
  /\ Request
  /\ tests \cap D # {}
  /\ tests' = tests \ D
  /\ UNCHANGED <<touched, remote, checkout, baseline, queue, genut, prep, history,
                 faults, upsets>>

\* pull_code, refused while a job uses the checkout; a job that starts after this check
\* has the checkout updated under it.
PullCode ==
  /\ Request
  /\ \/ Free /\ UNCHANGED upsets
     \/ ~Free /\ upsets < MaxUpsets /\ upsets' = upsets + 1
  /\ head' = remote
  /\ patched' = HasPatches
  /\ UNCHANGED <<touched, remote, baseline, queue, genut, prep, tests, history, faults>>

\* Somebody pushes a commit that changes functions F.
Push(F) ==
  /\ remote < MaxCommits
  /\ F # {}
  /\ remote' = remote + 1
  /\ touched' = [touched EXCEPT ![remote + 1] = F]
  /\ UNCHANGED <<checkout, baseline, queue, genut, prep, tests, history, budgets>>

-----------------------------------------------------------------------------
Init ==
  /\ touched = [c \in Commits |-> {}]
  /\ remote = 0
  /\ head = None /\ patched = FALSE
  /\ baseline = None
  /\ queued = [x \in Targets |-> 0]
  /\ manual = {}
  /\ genut = None
  /\ prep = NoPrep
  /\ tests = {}
  /\ first = 0
  /\ served = [f \in Functions |-> 0]
  /\ clients = 0 /\ faults = 0 /\ upsets = 0

PrepStep == \/ \E p \in Files : NextFile(p)
            \/ \E x \in Targets : Enqueue(x)
            \/ FinishPrepJob

UserStep == \/ \E x \in Targets : Submit(x)
            \/ CancelQueued
            \/ \E D \in SUBSET Functions : DeleteTests(D)
            \/ PullCode

Next ==
  \/ StartDiff \/ StartDiffFails \/ StartScan
  \/ PrepStep
  \/ \E p \in Files : SkipFile(p)
  \/ PrepAborts
  \/ \E x \in Targets : StartGenut(x)
  \/ GenutReturns \/ GenutFails
  \/ UserStep
  \/ \E F \in SUBSET Functions : Push(F)

Spec == Init /\ [][Next]_vars

\* Jobs end; the loop claims GENUT jobs before it claims preparation jobs, and cycles
\* come due again and again.
Fairness ==
  /\ WF_vars(PrepStep)
  /\ WF_vars(GenutReturns)
  /\ SF_vars(\E x \in Targets : StartGenut(x))
  /\ SF_vars(StartScan)

FairSpec == Spec /\ Fairness

-----------------------------------------------------------------------------
(* Properties *)

\* Every variable has its type, and commits are seen in their order: the baseline is not
\* ahead of the checkout, the checkout not ahead of the repository.
TypeOK ==
  /\ touched \in [Commits -> SUBSET Functions]
  /\ remote \in Commits
  /\ head \in Commits \cup {None} /\ patched \in BOOLEAN
  /\ head # None => head <= remote
  /\ patched => HasPatches
  /\ baseline \in Commits \cup {None}
  /\ baseline # None => head # None /\ baseline <= head
  /\ queued \in [Targets -> Nat] /\ manual \subseteq Targets
  /\ genut \in Targets \cup {None}
  /\ prep \in Prep
  /\ tests \subseteq Functions
  /\ first \in Commits /\ served \in [Functions -> Commits]
  /\ clients \in 0..MaxClients /\ faults \in 0..MaxFaults /\ upsets \in 0..MaxUpsets

Watched == {f \in Functions : AutoList[FileOf[f]] > 0 /\ FileOf[f] \in CompileDb}

\* The baseline passes a change only when a GENUT job has taken the changed function up
\* since or is pending for it; a job its user canceled is the user's business
\* (run_diff_job: the baseline advances only after everything succeeded).
ChangesServed ==
  baseline # None =>
    \A f \in Watched : \A c \in Commits :
      first < c /\ c <= baseline /\ f \in touched[c] => served[f] >= c \/ Awaited(f)

\* The same as long as no error was swallowed and no pull overtaken: cancels, crashes and
\* failures of the preparation jobs, pushes and pulls between them lose no change.
NoChangeMissed == upsets = 0 => ChangesServed

\* What a running diff still has to bring about: every change of its range is served,
\* awaited, asked for by the current file, or in a file not looked at yet.
RangeCovered ==
  prep.kind = "diff" =>
    \A f \in Watched : \A c \in Commits :
      baseline < c /\ c <= prep.new /\ f \in touched[c] =>
        served[f] >= c \/ Awaited(f) \/ f \in prep.requests \/ prep.files[FileOf[f]] > 0

\* A job in the index of a preparation job is pending, or was canceled meanwhile.
IndexHolds ==
  prep.kind # "none" =>
    \A x \in prep.index : \A f \in FunctionsOf(x) : Awaited(f) \/ served[f] = head

\* The checkout never goes back behind what jobs have read of it.
InOrder ==
  /\ prep.kind = "diff" => baseline # None /\ baseline < prep.new /\ prep.new <= head
  /\ prep.kind # "none" => head # None /\ genut = None
  /\ \A f \in Functions : served[f] > 0 => head # None /\ served[f] <= head

\* The HEAD a diff has read is still the HEAD.
DiffAtHead == prep.kind = "diff" => prep.new = head

\* The inductive invariant behind NoChangeMissed: the promise of the baseline, what a
\* running preparation job relies on, and what it still has to do.
ChangesAreTracked ==
  /\ TypeOK /\ InOrder
  /\ upsets = 0 => DiffAtHead /\ IndexHolds /\ ChangesServed /\ RangeCovered

\* Preparation jobs never queue a second job for what a pending job of theirs will do:
\* neither the same function or file twice, nor a function next to its whole file
\* (EnqueueContext).
NothingQueuedTwice ==
  \A x \in Targets :
    /\ queued[x] <= 1
    /\ x \in Functions /\ queued[FileOf[x]] > 0 => queued[x] = 0

\* Every function of the list has a test sooner or later, and gets one again when its
\* tests are deleted (run_scan_job).
TestsAppear == \A f \in Functions : f \in Watched /\ f \notin tests ~> f \in tests

=============================================================================
