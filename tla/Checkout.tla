------------------------------- MODULE Checkout -------------------------------
(***************************************************************************)
(* The checkout of one product: how a job and the requests "download code" *)
(* bring it up to date (git_ops.ensure_checkout), keep the generated tests *)
(* and apply the patches of the product (git_ops.apply_patch), while       *)
(* commits are pushed, users commit locally, git commands are killed and   *)
(* the server crashes.                                                     *)
(*                                                                         *)
(* A step is one git command or one copy of the output folder.  A killed   *)
(* command ends half done.  Jobs of one product exclude each other; a      *)
(* download is refused while a job runs, but a job may start during one.   *)
(***************************************************************************)
EXTENDS Naturals, FiniteSets

CONSTANTS
  Job,          \* the thread of the job of this product
  Pulls,        \* requests that download code
  Modes,        \* Modes[a]: the update modes thread a may ask for
  Patches,      \* patches, named by their order_index
  Lists,        \* Lists[a]: the sets of patches that thread a may find listed
  Tests,        \* files in the output folder
  LastCommit,   \* bound: commits of the remote branch
  Fit,          \* Fit[c][p]: patch p "applies" to commit c, "clashes" with it or is
                \* "contained" in it; patches do not touch each other's lines
  LocalFits,    \* commits onto which the local commits of users rebase cleanly
  MaxFaults     \* bound: commands and copies that fail or are killed, crashes, cancels

ASSUME CheckoutAssumption ==
  /\ Job \notin Pulls
  /\ Modes \in [{Job} \cup Pulls -> SUBSET {"reset", "rebase"}]
  /\ Patches \subseteq Nat
  /\ Lists \in [{Job} \cup Pulls -> SUBSET SUBSET Patches]
  /\ LastCommit \in Nat \ {0}
  /\ Fit \in [1..LastCommit -> [Patches -> {"applies", "clashes", "contained"}]]
  /\ LocalFits \subseteq 1..LastCommit
  /\ MaxFaults \in Nat

VARIABLES
  remote,       \* the newest commit of the remote branch
  dir,          \* the directory of the checkout
  upd,          \* the update each thread is in
  orphans,      \* tests in backups whose thread is gone (genut_keep_* in the temp folder)
  made,         \* history: tests GENUT has written
  exposed,      \* history: tests staged after a backup that a git command of its thread
                \* may still remove, and tests of backups that could not be copied back
  owed,         \* history: users have local commits and no reset has run since
  cut,          \* history: a rebase was killed, or could not be undone after a crash or
                \* because a killed command has locked the index
  faults

history == <<made, exposed, owed, cut>>
vars == <<remote, dir, upd, orphans, history, faults>>

Threads == {Job} \cup Pulls
Commits == 1..LastCommit

-----------------------------------------------------------------------------
(* The directory, and what git does to it *)

\* stop holds what a stopped rebase has put aside: the commit it left, the patches and
\* the staged tests of its autostash.  torn: a killed command has left index.lock and a
\* half-written tree.  conflict: files with conflict markers, unmerged in the index.
Stop == [base : Commits, patch : [Patches -> {"absent", "applied", "mangled"}],
         staged : SUBSET Tests]
Dir == [state : {"none", "partial", "whole"}, fetched : 0..LastCommit,
        base : 0..LastCommit, local : BOOLEAN,
        patch : [Patches -> {"absent", "applied", "mangled"}],
        torn : BOOLEAN, conflict : BOOLEAN,
        tests : [Tests -> {"none", "untracked", "staged"}], stop : SUBSET Stop]

NoDir == [state |-> "none", fetched |-> 0, base |-> 0, local |-> FALSE,
          patch |-> [p \in Patches |-> "absent"], torn |-> FALSE, conflict |-> FALSE,
          tests |-> [t \in Tests |-> "none"], stop |-> {}]

Staged(d)  == {t \in Tests : d.tests[t] = "staged"}
Present(d) == {t \in Tests : d.tests[t] # "none"}

\* The lines of patch p are in the tree, so that it can be reversed.
Has(d, p) == \/ d.patch[p] = "applied"
             \/ d.patch[p] = "absent" /\ d.base # 0 /\ Fit[d.base][p] = "contained"

CanApply(d, p) == d.patch[p] = "absent" /\ d.base # 0 /\ Fit[d.base][p] = "applies"

Cloned(d, c) == [d EXCEPT !.state = "whole", !.fetched = c, !.base = c]

\* git reset --hard: local commits and staged new files go, untracked files stay.
Reset(d, c) ==
  [d EXCEPT !.base = c, !.local = FALSE, !.conflict = FALSE,
            !.patch = [p \in Patches |-> "absent"],
            !.tests = [t \in Tests |-> IF d.tests[t] = "staged" THEN "none" ELSE d.tests[t]]]

\* The changes of the tree after an autostash is applied on commit c; where they clash
\* git leaves conflict markers, keeps the stash and still exits with 0.
Popped(old, c) ==
  [p \in Patches |->
     IF old[p] = "absent" \/ Fit[c][p] = "contained" THEN "absent"
     ELSE IF Fit[c][p] = "clashes" THEN "mangled" ELSE old[p]]
Clash(old, c) == \E p \in Patches : old[p] # "absent" /\ Fit[c][p] = "clashes"

Refuses(d) == d.state # "whole" \/ d.torn \/ d.conflict \/ d.stop # {}
Stops(d, c) == d.local /\ c # d.base /\ c \notin LocalFits

\* git rebase --autostash
Rebased(d, c) ==
  [d EXCEPT !.base = c, !.patch = IF c = d.base THEN d.patch ELSE Popped(d.patch, c),
            !.conflict = c # d.base /\ Clash(d.patch, c)]
Stopped(d, c) ==
  [Reset(d, c) EXCEPT !.stop = {[base |-> d.base, patch |-> d.patch, staged |-> Staged(d)]}]

\* git rebase --abort; it fails when no rebase is in progress or the index is locked.
Aborted(d, r) ==
  [d EXCEPT !.base = r.base, !.local = TRUE, !.patch = r.patch, !.conflict = FALSE,
            !.tests = [t \in Tests |-> IF t \in r.staged THEN "staged"
                                       ELSE Reset(d, r.base).tests[t]],
            !.stop = {}]

-----------------------------------------------------------------------------
(* Threads *)

Update == [pc : {"idle", "enter", "clone", "compare", "update", "abort", "restore",
                 "patch", "run"},
           mode : {"reset", "rebase"}, want : SUBSET Patches, todo : SUBSET Patches,
           saved : SUBSET Tests, seen : 0..LastCommit, ok : BOOLEAN, disturbed : BOOLEAN]

Idle == [pc |-> "idle", mode |-> "reset", want |-> {}, todo |-> {}, saved |-> {},
         seen |-> 0, ok |-> TRUE, disturbed |-> FALSE]

Strict(a) == a \in Pulls

\* Only for the job it is remembered.
Disturbed(x) == IF upd[x].pc = "idle" THEN Idle
                ELSE [upd[x] EXCEPT !.disturbed = (x = Job), !.seen = 0]

\* Thread a goes on with r and leaves the directory as d, which disturbs the other threads
\* in an update.
Goes(a, r, d) ==
  /\ dir' = d
  /\ upd' = [x \in Threads |->
               IF x = a THEN r
               ELSE IF d # dir THEN Disturbed(x) ELSE upd[x]]

\* Tests that are staged and that the backup of a thread lacks are exposed.
Exposes(S) ==
  exposed' = S \cup {t \in Staged(dir') :
                       \E x \in Threads : /\ upd'[x].pc \in {"update", "abort"}
                                          /\ t \notin upd'[x].saved}

Fault == faults < MaxFaults /\ faults' = faults + 1

At(a, pc) == upd[a].pc = pc
To(a, pc) == [upd[a] EXCEPT !.pc = pc]
Fails(a, d) == Goes(a, Idle, d)

\* The job reads the product; a download takes its form, after a check that no job runs.
Begin(a) ==
  /\ At(a, "idle")
  /\ a \in Pulls => At(Job, "idle")
  /\ \E m \in Modes[a], w \in Lists[a] :
       Goes(a, [Idle EXCEPT !.pc = "enter", !.mode = m, !.want = w, !.todo = w], dir)
  /\ UNCHANGED <<remote, orphans, history, faults>>

-----------------------------------------------------------------------------
(* ensure_checkout *)

\* `.git` is there: fetch.  The remains of a killed clone fetch nothing, without error.
Fetch(a) ==
  /\ At(a, "enter")
  /\ \/ /\ dir.state = "whole"
        /\ Goes(a, [To(a, "compare") EXCEPT !.seen = remote], [dir EXCEPT !.fetched = remote])
     \/ /\ dir.state = "partial"
        /\ Goes(a, To(a, "compare"), dir)
  /\ UNCHANGED <<remote, orphans, history, faults>>

\* Without the remote a job goes on with what it has, in either mode.
FetchFails(a) ==
  /\ At(a, "enter") /\ dir.state # "none" /\ Fault
  /\ IF Strict(a) THEN Fails(a, dir) ELSE Goes(a, To(a, "patch"), dir)
  /\ UNCHANGED <<remote, orphans, history>>

\* `.git` is missing: clone.  The directory has a `.git` while the clone runs.
StartClone(a) ==
  /\ At(a, "enter") /\ dir.state = "none"
  /\ Goes(a, To(a, "clone"), [dir EXCEPT !.state = "partial"])
  /\ UNCHANGED <<remote, orphans, history, faults>>

EndClone(a) ==
  /\ At(a, "clone")
  /\ Goes(a, [To(a, "patch") EXCEPT !.seen = remote], Cloned(dir, remote))
  /\ UNCHANGED <<remote, orphans, history, faults>>

\* A clone that fails removes what it made; one that is killed does not, and dies before
\* the references are written or while the files are.
CloneFails(a) ==
  /\ At(a, "clone") /\ Fault
  /\ \E d \in {[dir EXCEPT !.state = "none"], dir, [Cloned(dir, remote) EXCEPT !.torn = TRUE]} :
       Fails(a, d)
  /\ UNCHANGED <<remote, orphans, history>>

\* What _backup_preserved copies; the form of a download may name no output folder.
Backups(a) == IF a = Job THEN {Present(dir)} ELSE {Present(dir), {}}

\* mutant: an update that finds nothing new skips the patches too
CompareSkipsPatches(a) ==
  /\ At(a, "compare") /\ dir.state = "whole"
  /\ IF dir.base = dir.fetched /\ ~dir.local
     THEN Goes(a, [To(a, "patch") EXCEPT !.todo = {}], dir)
     ELSE \E S \in Backups(a) : Goes(a, [To(a, "update") EXCEPT !.saved = S], dir)
  /\ Exposes(exposed)
  /\ UNCHANGED <<remote, orphans, made, owed, cut, faults>>

\* HEAD is compared with origin/<ref>, or with @{u} when no ref is given.  If they are equal
\* the update is over; else the output folder is copied aside.
Compare(a) ==
  /\ At(a, "compare")
  /\ \/ /\ dir.state # "whole"
        /\ \E named \in BOOLEAN :
             IF named \/ Strict(a) THEN Fails(a, dir) ELSE Goes(a, To(a, "update"), dir)
     \/ /\ dir.state = "whole" /\ dir.base = dir.fetched /\ ~dir.local
        /\ Goes(a, To(a, "patch"), dir)
     \/ /\ dir.state = "whole" /\ (dir.base # dir.fetched \/ dir.local)
        /\ \E S \in Backups(a) : Goes(a, [To(a, "update") EXCEPT !.saved = S], dir)
  /\ Exposes(exposed)
  /\ UNCHANGED <<remote, orphans, made, owed, cut, faults>>

Updates(a, mode) == At(a, "update") /\ upd[a].mode = mode
Restoring(a, ok) == [To(a, "restore") EXCEPT !.ok = ok]
Resets(d) == d.state = "whole" /\ ~d.torn

\* An index that a killed command has locked makes the reset fail.
HardReset(a) ==
  /\ Updates(a, "reset")
  /\ Goes(a, Restoring(a, Resets(dir)), IF Resets(dir) THEN Reset(dir, dir.fetched) ELSE dir)
  /\ owed' = (owed /\ ~Resets(dir))
  /\ Exposes(exposed)
  /\ UNCHANGED <<remote, orphans, made, cut, faults>>

\* Killed by its timeout or by a cancel while it writes the tree.
HardResetKilled(a) ==
  /\ Updates(a, "reset") /\ Resets(dir) /\ Fault
  /\ \E clean \in SUBSET Patches, removed \in SUBSET Staged(dir) :
       Goes(a, Restoring(a, FALSE),
            [dir EXCEPT !.torn = TRUE,
               !.patch = [p \in Patches |-> IF p \in clean THEN "absent" ELSE dir.patch[p]],
               !.tests = [t \in Tests |-> IF t \in removed THEN "none" ELSE dir.tests[t]]])
  /\ cut' = (cut \/ dir.stop # {})
  /\ Exposes(exposed)
  /\ UNCHANGED <<remote, orphans, made, owed>>

\* mutant: a failed rebase is not aborted
RebaseNoAbort(a) ==
  /\ Updates(a, "rebase")
  /\ IF Refuses(dir) THEN Goes(a, Restoring(a, FALSE), dir)
     ELSE IF Stops(dir, dir.fetched)
     THEN Goes(a, Restoring(a, FALSE), Stopped(dir, dir.fetched))
     ELSE Goes(a, Restoring(a, TRUE), Rebased(dir, dir.fetched))
  /\ Exposes(exposed)
  /\ UNCHANGED <<remote, orphans, made, owed, cut, faults>>

\* mutant: only a rebase that has begun is aborted
RebaseAbortsOwn(a) ==
  /\ Updates(a, "rebase")
  /\ IF Refuses(dir) THEN Goes(a, Restoring(a, FALSE), dir)
     ELSE IF Stops(dir, dir.fetched)
     THEN Goes(a, To(a, "abort"), Stopped(dir, dir.fetched))
     ELSE Goes(a, Restoring(a, TRUE), Rebased(dir, dir.fetched))
  /\ Exposes(exposed)
  /\ UNCHANGED <<remote, orphans, made, owed, cut, faults>>

Rebase(a) ==
  /\ Updates(a, "rebase")
  /\ \/ Refuses(dir) /\ Goes(a, To(a, "abort"), dir)
     \/ /\ ~Refuses(dir) /\ Stops(dir, dir.fetched)
        /\ Goes(a, To(a, "abort"), Stopped(dir, dir.fetched))
     \/ /\ ~Refuses(dir) /\ ~Stops(dir, dir.fetched)
        /\ Goes(a, Restoring(a, TRUE), Rebased(dir, dir.fetched))
  /\ Exposes(exposed)
  /\ UNCHANGED <<remote, orphans, made, owed, cut, faults>>

RebaseKilled(a) ==
  /\ Updates(a, "rebase") /\ ~Refuses(dir) /\ Fault
  /\ Goes(a, To(a, "abort"), [Stopped(dir, dir.fetched) EXCEPT !.torn = TRUE])
  /\ cut' = TRUE
  /\ Exposes(exposed)
  /\ UNCHANGED <<remote, orphans, made, owed>>

Abort(a) ==
  /\ At(a, "abort")
  /\ \/ /\ dir.stop = {} \/ dir.torn
        /\ Goes(a, Restoring(a, FALSE), dir)
     \/ /\ ~dir.torn
        /\ \E r \in dir.stop : Goes(a, Restoring(a, FALSE), Aborted(dir, r))
  /\ Exposes(exposed)
  /\ UNCHANGED <<remote, orphans, made, owed, cut, faults>>

Overlaid(d, S) ==
  [d EXCEPT !.tests = [t \in Tests |-> IF t \in S /\ d.tests[t] = "none" THEN "untracked"
                                       ELSE d.tests[t]]]

\* mutant: the backup is copied back only after an update that has worked
RestoreIfOk(a) ==
  /\ At(a, "restore")
  /\ IF upd[a].ok THEN Goes(a, [To(a, "patch") EXCEPT !.saved = {}, !.ok = TRUE],
                            Overlaid(dir, upd[a].saved))
     ELSE Fails(a, dir)
  /\ UNCHANGED <<remote, orphans, history, faults>>

\* mutant: a failed reset is ignored for downloads too
RestoreNotStrict(a) ==
  /\ At(a, "restore")
  /\ LET d == Overlaid(dir, upd[a].saved)
     IN  IF upd[a].ok \/ upd[a].mode = "reset"
         THEN Goes(a, [To(a, "patch") EXCEPT !.saved = {}, !.ok = TRUE], d)
         ELSE Fails(a, d)
  /\ UNCHANGED <<remote, orphans, history, faults>>

\* Copy the backup over the tree.  After a failed reset a job goes on; after a failed
\* rebase nobody does.
Restore(a) ==
  /\ At(a, "restore")
  /\ LET d == Overlaid(dir, upd[a].saved)
     IN  IF upd[a].ok \/ (upd[a].mode = "reset" /\ ~Strict(a))
         THEN Goes(a, [To(a, "patch") EXCEPT !.saved = {}, !.ok = TRUE], d)
         ELSE Fails(a, d)
  /\ UNCHANGED <<remote, orphans, history, faults>>

\* A copy that fails removes the backup all the same.
RestoreFails(a) ==
  /\ At(a, "restore") /\ Fault
  /\ \E S \in SUBSET upd[a].saved :
       /\ Fails(a, Overlaid(dir, S))
       /\ Exposes(exposed \cup (upd[a].saved \ S))
  /\ UNCHANGED <<remote, orphans, made, owed, cut>>

-----------------------------------------------------------------------------
(* apply_patch, in the order of order_index *)

Due(a, p) == At(a, "patch") /\ p \in upd[a].todo /\ \A q \in upd[a].todo : p <= q
Done(a, p) == [upd[a] EXCEPT !.todo = @ \ {p}]

Skip(a, p) ==
  /\ Due(a, p) /\ Has(dir, p)
  /\ Goes(a, Done(a, p), dir)
  /\ UNCHANGED <<remote, orphans, history, faults>>

Apply(a, p) ==
  /\ Due(a, p) /\ ~Has(dir, p) /\ CanApply(dir, p)
  /\ Goes(a, Done(a, p), [dir EXCEPT !.patch[p] = "applied"])
  /\ UNCHANGED <<remote, orphans, history, faults>>

\* PatchError; in a half-written tree any patch may fail.
PatchFails(a, p) ==
  /\ Due(a, p)
  /\ \/ ~Has(dir, p) /\ ~CanApply(dir, p)
     \/ dir.torn \/ dir.state # "whole"
  /\ Fails(a, dir)
  /\ UNCHANGED <<remote, orphans, history, faults>>

\* Killed between two of the files it changes.
ApplyKilled(a, p) ==
  /\ Due(a, p) /\ ~Has(dir, p) /\ CanApply(dir, p) /\ Fault
  /\ Fails(a, [dir EXCEPT !.patch[p] = "mangled"])
  /\ UNCHANGED <<remote, orphans, history>>

\* The download answers that it has succeeded; the job starts GENUT, unless it is canceled.
Ready(a) ==
  /\ At(a, "patch") /\ upd[a].todo = {}
  /\ Goes(a, IF a = Job THEN To(a, "run") ELSE Idle, dir)
  /\ UNCHANGED <<remote, orphans, history, faults>>

Canceled ==
  /\ At(Job, "patch") /\ upd[Job].todo = {} /\ Fault
  /\ Fails(Job, dir)
  /\ UNCHANGED <<remote, orphans, history>>

\* GENUT writes a test, and stages it or not.
Generate(t) ==
  /\ At(Job, "run")
  /\ \E how \in {"untracked", "staged"} : Goes(Job, upd[Job], [dir EXCEPT !.tests[t] = how])
  /\ made' = made \cup {t}
  /\ Exposes(exposed \ {t})
  /\ UNCHANGED <<remote, orphans, owed, cut, faults>>

FinishRun ==
  /\ At(Job, "run")
  /\ Fails(Job, dir)
  /\ UNCHANGED <<remote, orphans, history, faults>>

-----------------------------------------------------------------------------
(* Users and the server *)

Push ==
  /\ remote < LastCommit
  /\ remote' = remote + 1
  /\ UNCHANGED <<dir, upd, orphans, history, faults>>

\* A user commits in the checkout (a cherry-pick), on the branch.
Commit ==
  /\ dir.state = "whole" /\ ~dir.torn /\ ~dir.conflict /\ dir.stop = {} /\ ~dir.local
  /\ dir' = [dir EXCEPT !.local = TRUE]
  /\ owed' = TRUE
  /\ upd' = [x \in Threads |-> Disturbed(x)]
  /\ UNCHANGED <<remote, orphans, made, exposed, cut, faults>>

\* All threads end.  Git runs in a session of its own: a clone may still complete.
Crash ==
  /\ \E a \in Threads : ~At(a, "idle")
  /\ Fault
  /\ \/ UNCHANGED dir
     \/ (\E a \in Threads : At(a, "clone")) /\ dir' = Cloned(dir, remote)
  /\ upd' = [a \in Threads |-> Idle]
  /\ orphans' = orphans \cup UNION {upd[a].saved : a \in Threads}
  /\ cut' = (cut \/ dir.stop # {})
  /\ UNCHANGED <<remote, made, exposed, owed>>

-----------------------------------------------------------------------------

Init ==
  /\ remote = 1
  /\ dir = NoDir
  /\ upd = [a \in Threads |-> Idle]
  /\ orphans = {} /\ made = {} /\ exposed = {} /\ owed = FALSE /\ cut = FALSE
  /\ faults = 0

Updating(a) ==
  \/ Fetch(a) \/ StartClone(a) \/ EndClone(a) \/ Compare(a)
  \/ HardReset(a) \/ Rebase(a) \/ Abort(a) \/ Restore(a)
  \/ \E p \in Patches : Skip(a, p) \/ Apply(a, p) \/ PatchFails(a, p)
  \/ Ready(a)

Failing(a) ==
  \/ FetchFails(a) \/ CloneFails(a) \/ HardResetKilled(a) \/ RebaseKilled(a)
  \/ RestoreFails(a) \/ (a = Job /\ Canceled)
  \/ \E p \in Patches : ApplyKilled(a, p)

Next ==
  \/ \E a \in Threads : Begin(a) \/ Updating(a) \/ Failing(a)
  \/ \E t \in Tests : Generate(t)
  \/ FinishRun \/ Push \/ Commit \/ Crash

Spec == Init /\ [][Next]_vars

\* git commands end, jobs are submitted again and again, and GENUT ends.
Fairness ==
  /\ WF_vars(Begin(Job)) /\ WF_vars(FinishRun)
  /\ \A a \in Threads : WF_vars(Updating(a))

FairSpec == Spec /\ Fairness

-----------------------------------------------------------------------------
(* Properties *)

\* The tests GENUT has written are never lost to an update: they are in the tree, in a
\* backup or in the autostash of a stopped rebase.  Excepted are tests that were staged
\* after a backup, in a window two threads share, and those a failed copy has lost
\* (_backup_preserved, _restore_preserved).
TestsKept ==
  \A t \in made \ exposed :
    \/ t \in Present(dir) \cup orphans
    \/ \E a \in Threads : t \in upd[a].saved
    \/ \E r \in dir.stop : t \in r.staged

\* GENUT runs on a tree that has all patches of the product, unless another thread has
\* changed it since: no path through an update skips the patches it has removed.
RunsPatched ==
  At(Job, "run") /\ ~upd[Job].disturbed => \A p \in upd[Job].want : Has(dir, p)

\* A download that reports success, and a job in mode "rebase", work on the commit they
\* have fetched, whatever state an earlier command has left: old code is never passed off
\* as new ("strict", and the rebase branch of ensure_checkout).
SuccessIsCurrent ==
  \A a \in Threads :
    /\ upd[a].pc \in {"patch", "run"} /\ upd[a].seen # 0
    /\ Strict(a) \/ upd[a].mode = "rebase"
    => dir.base = upd[a].seen

\* GENUT runs with the local commits of the users until a reset, unless a rebase was cut
\* short or is about to be undone: a rebase that fails is undone before the next job can take
\* its result for up to date (the rebase branch of ensure_checkout).
LocalCommitsKept ==
  At(Job, "run") /\ owed /\ ~cut /\ (\A a \in Pulls : ~At(a, "abort")) => dir.local

\* What only a user can repair: the remains of a killed clone, a locked index, conflict
\* markers, a half-applied patch, and patches or local commits that do not fit.
Stuck ==
  \/ dir.state = "partial" \/ dir.torn \/ dir.conflict
  \/ dir.local /\ remote \notin LocalFits
  \/ \E p \in Patches : dir.patch[p] = "mangled" \/ Fit[remote][p] = "clashes"

\* Jobs keep coming through with the newest code, unless the checkout is stuck in one of
\* these ways for good or others disturb the updates for ever.  Everything else that a kill
\* or a crash leaves behind, a stopped rebase among it, is repaired by the next updates.
JobsGetThrough ==
  []<>(At(Job, "run") /\ dir.base = remote) \/ <>[]Stuck \/ []<>upd[Job].disturbed

=============================================================================
