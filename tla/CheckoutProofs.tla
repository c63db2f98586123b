----------------------------- MODULE CheckoutProofs -----------------------------
(***************************************************************************)
(* That GENUT runs on a patched tree and that old code is not passed off   *)
(* as new, for any number of downloads, patches, commits and faults.       *)
(***************************************************************************)
EXTENDS Checkout, TLAPS

\* The type invariant that the proofs need; a whole checkout is at a commit.
Dirs == {d \in Dir : d.state = "whole" => d.base \in Commits /\ d.fetched \in Commits}
Types ==
  /\ remote \in Commits
  /\ dir \in Dirs
  /\ upd \in [Threads -> Update]

\* What thread x with the update r knows of the directory d: which patches are due and which
\* are in the tree, and that what it has fetched is what it updates to.
Patched(x, r, d) ==
  /\ r.pc \notin {"idle", "patch", "run"} => r.todo = r.want
  /\ r.pc = "run" => r.todo = {}
  /\ x = Job /\ r.pc \in {"patch", "run"} /\ ~r.disturbed => \A p \in r.want \ r.todo : Has(d, p)

Fetched(x, r, d) ==
  /\ r.pc \in {"enter", "clone"} => r.seen = 0
  /\ r.pc = "abort" => r.mode = "rebase"
  /\ r.pc \in {"compare", "update"} /\ r.seen # 0 => d.fetched = r.seen
  /\ r.pc = "restore" /\ r.ok /\ r.seen # 0 => d.base = r.seen
  /\ r.pc \in {"patch", "run"} /\ r.seen # 0 /\ (Strict(x) \/ r.mode = "rebase")
     => d.base = r.seen

Sound(x, r, d) == Patched(x, r, d) /\ Fetched(x, r, d)

\* The inductive invariant.
CheckoutInv == Types /\ \A x \in Threads : Sound(x, upd[x], dir)

-----------------------------------------------------------------------------
(* Proofs *)

\* Setting one field of a directory keeps its type and the other fields.
Alike(d, e) == /\ e \in Dir /\ e.state = d.state /\ e.fetched = d.fetched
               /\ e.base = d.base /\ e.stop = d.stop /\ e.tests = d.tests

LEMMA SetField ==
  ASSUME NEW d \in Dir
  PROVE  /\ \A b \in BOOLEAN : Alike(d, [d EXCEPT !.local = b])
         /\ \A b \in BOOLEAN : Alike(d, [d EXCEPT !.conflict = b])
         /\ \A f \in [Patches -> {"absent", "applied", "mangled"}] : Alike(d, [d EXCEPT !.patch = f])
<1>1. \A b \in BOOLEAN : Alike(d, [d EXCEPT !.local = b]) /\ Alike(d, [d EXCEPT !.conflict = b])
  BY DEF Alike, Dir
<1>2. \A f \in [Patches -> {"absent", "applied", "mangled"}] : Alike(d, [d EXCEPT !.patch = f])
  BY DEF Alike, Dir
<1> QED BY <1>1, <1>2

LEMMA SetTests ==
  ASSUME NEW d \in Dir, NEW f \in [Tests -> {"none", "untracked", "staged"}],
         NEW e, e = [d EXCEPT !.tests = f]
  PROVE  /\ e \in Dir /\ e.state = d.state /\ e.fetched = d.fetched
         /\ e.base = d.base /\ e.stop = d.stop /\ e.tests = f
BY DEF Dir

LEMMA SetBase ==
  ASSUME NEW d \in Dir, NEW c \in 0..LastCommit, NEW e, e = [d EXCEPT !.base = c]
  PROVE  /\ e \in Dir /\ e.state = d.state /\ e.fetched = d.fetched
         /\ e.base = c /\ e.stop = d.stop /\ e.tests = d.tests
BY DEF Dir

LEMMA ResetDir ==
  ASSUME NEW d \in Dirs, NEW c \in Commits
  PROVE  /\ Reset(d, c) \in Dirs /\ Reset(d, c).base = c /\ Reset(d, c).stop = d.stop
         /\ Reset(d, c).tests = [t \in Tests |-> IF d.tests[t] = "staged" THEN "none" ELSE d.tests[t]]
<1> DEFINE patch == [p \in Patches |-> "absent"]
           tests == [t \in Tests |-> IF d.tests[t] = "staged" THEN "none" ELSE d.tests[t]]
<1>1. /\ patch \in [Patches -> {"absent", "applied", "mangled"}]
      /\ tests \in [Tests -> {"none", "untracked", "staged"}]
      /\ c \in 0..LastCommit
  BY DEF Dirs, Dir, Commits
<1> DEFINE e1 == [d EXCEPT !.base = c]
           e2 == [e1 EXCEPT !.local = FALSE]
           e3 == [e2 EXCEPT !.conflict = FALSE]
           e4 == [e3 EXCEPT !.patch = patch]
           e5 == [e4 EXCEPT !.tests = tests]
<1>2. Reset(d, c) = e5
  BY DEF Reset
<1> HIDE DEF patch, tests
<1>3. Reset(d, c) \in Dir /\ Reset(d, c).base = c /\ Reset(d, c).fetched = d.fetched
      /\ Reset(d, c).state = d.state /\ Reset(d, c).stop = d.stop /\ Reset(d, c).tests = tests
  <2>1. e1 \in Dir /\ e1.base = c /\ e1.fetched = d.fetched /\ e1.state = d.state /\ e1.stop = d.stop
    BY <1>1, SetBase DEF Dirs
  <2> HIDE DEF e1
  <2>2. Alike(e1, e2)
    BY <2>1, SetField
  <2> HIDE DEF e2
  <2>3. Alike(e2, e3)
    BY <2>2, SetField DEF Alike
  <2> HIDE DEF e3
  <2>4. Alike(e3, e4)
    BY <1>1, <2>3, SetField DEF Alike
  <2> HIDE DEF e4
  <2>5. /\ e5 \in Dir /\ e5.state = e4.state /\ e5.fetched = e4.fetched
        /\ e5.base = e4.base /\ e5.stop = e4.stop /\ e5.tests = tests
    BY <1>1, <2>4, SetTests DEF Alike
  <2> HIDE DEF e5
  <2> QED BY <1>2, <2>1, <2>2, <2>3, <2>4, <2>5 DEF Alike
<1> QED BY <1>3 DEF Dirs, tests

LEMMA CloneDir ==
  ASSUME NEW d \in Dirs, NEW c \in Commits
  PROVE  /\ Cloned(d, c) \in Dirs /\ Cloned(d, c).base = c
         /\ Cloned(d, c).tests = d.tests /\ Cloned(d, c).stop = d.stop
<1>1. c \in 0..LastCommit
  BY DEF Commits
<1>2. /\ Cloned(d, c) \in Dir /\ Cloned(d, c).base = c /\ Cloned(d, c).fetched = c
      /\ Cloned(d, c).tests = d.tests /\ Cloned(d, c).stop = d.stop
  BY <1>1 DEF Dirs, Dir, Cloned
<1> QED BY <1>2 DEF Dirs

LEMMA RebaseDir ==
  ASSUME NEW d \in Dirs, NEW c \in Commits
  PROVE  /\ Rebased(d, c) \in Dirs /\ Rebased(d, c).base = c
         /\ Rebased(d, c).tests = d.tests /\ Rebased(d, c).stop = d.stop
<1>1. Popped(d.patch, c) \in [Patches -> {"absent", "applied", "mangled"}]
  BY DEF Dirs, Dir, Popped
<1> DEFINE conflict == c # d.base /\ Clash(d.patch, c)
           patch == IF c = d.base THEN d.patch ELSE Popped(d.patch, c)
<1>2. /\ conflict \in BOOLEAN /\ patch \in [Patches -> {"absent", "applied", "mangled"}]
      /\ c \in 0..LastCommit
  BY <1>1 DEF Dirs, Dir, Commits
<1> DEFINE e1 == [d EXCEPT !.base = c]
           e2 == [e1 EXCEPT !.patch = patch]
           e3 == [e2 EXCEPT !.conflict = conflict]
<1>3. Rebased(d, c) = e3
  BY DEF Rebased
<1> HIDE DEF conflict, patch
<1>4. Rebased(d, c) \in Dir /\ Rebased(d, c).base = c /\ Rebased(d, c).fetched = d.fetched
      /\ Rebased(d, c).state = d.state
      /\ Rebased(d, c).tests = d.tests /\ Rebased(d, c).stop = d.stop
  <2>1. /\ e1 \in Dir /\ e1.base = c /\ e1.fetched = d.fetched /\ e1.state = d.state
        /\ e1.tests = d.tests /\ e1.stop = d.stop
    BY <1>2, SetBase DEF Dirs
  <2> HIDE DEF e1
  <2>2. Alike(e1, e2)
    BY <1>2, <2>1, SetField
  <2> HIDE DEF e2
  <2>3. Alike(e2, e3)
    BY <1>2, <2>2, SetField DEF Alike
  <2> HIDE DEF e3
  <2> QED BY <1>3, <2>1, <2>2, <2>3 DEF Alike
<1> QED BY <1>4 DEF Dirs

LEMMA StopDir ==
  ASSUME NEW d \in Dirs, d.state = "whole", NEW c \in Commits
  PROVE  \A e \in {Stopped(d, c), [Stopped(d, c) EXCEPT !.torn = TRUE]} :
           /\ e \in Dirs
           /\ e.tests = [t \in Tests |-> IF d.tests[t] = "staged" THEN "none" ELSE d.tests[t]]
           /\ \E s \in e.stop : e.stop = {s} /\ s.staged = Staged(d)
<1>1. [base |-> d.base, patch |-> d.patch, staged |-> Staged(d)] \in Stop
  BY DEF Dirs, Dir, Stop, Staged
<1> DEFINE s == [base |-> d.base, patch |-> d.patch, staged |-> Staged(d)]
           e == Stopped(d, c)
<1>2. s \in Stop /\ s.staged = Staged(d)
  BY <1>1
<1>3. e = [Reset(d, c) EXCEPT !.stop = {s}]
  BY DEF Stopped
<1> HIDE DEF s, e
<1>4. e \in Dirs /\ e.stop = {s} /\ e.tests = Reset(d, c).tests
  <2>1. ASSUME NEW q \in Dirs, NEW f, f = [q EXCEPT !.stop = {s}]
        PROVE  f \in Dirs /\ f.stop = {s} /\ f.tests = q.tests
    <3>1. {s} \in SUBSET Stop
      BY <1>2
    <3> QED BY <2>1, <3>1 DEF Dirs, Dir
  <2>2. Reset(d, c) \in Dirs
    BY ResetDir
  <2> QED BY <1>3, <2>1, <2>2
<1>5. ASSUME NEW f, f = [e EXCEPT !.torn = TRUE]
      PROVE  f \in Dirs /\ f.stop = {s} /\ f.tests = Reset(d, c).tests
  BY <1>4, <1>5 DEF Dirs, Dir
<1>6. /\ [e EXCEPT !.torn = TRUE] \in Dirs /\ [e EXCEPT !.torn = TRUE].stop = {s}
      /\ [e EXCEPT !.torn = TRUE].tests = Reset(d, c).tests
  BY <1>5
<1>7. \A f \in {e, [e EXCEPT !.torn = TRUE]} :
        f \in Dirs /\ f.stop = {s} /\ f.tests = Reset(d, c).tests
  BY <1>4, <1>6
<1>8. \A f \in {e, [e EXCEPT !.torn = TRUE]} :
        /\ f \in Dirs
        /\ f.tests = [t \in Tests |-> IF d.tests[t] = "staged" THEN "none" ELSE d.tests[t]]
        /\ \E x \in f.stop : f.stop = {x} /\ x.staged = Staged(d)
  BY <1>2, <1>7, ResetDir
<1> QED BY <1>8 DEF e

LEMMA AbortDir ==
  ASSUME NEW d \in Dirs, NEW r \in d.stop
  PROVE  /\ Aborted(d, r) \in Dirs /\ Aborted(d, r).stop = {}
         /\ Aborted(d, r).tests = [t \in Tests |-> IF t \in r.staged THEN "staged"
                                   ELSE IF d.tests[t] = "staged" THEN "none" ELSE d.tests[t]]
<1>1. r \in Stop
  BY DEF Dirs, Dir
<1>2. /\ Reset(d, r.base).tests \in [Tests -> {"none", "untracked", "staged"}]
      /\ Reset(d, r.base).tests = [t \in Tests |-> IF d.tests[t] = "staged" THEN "none" ELSE d.tests[t]]
  BY <1>1, ResetDir DEF Dirs, Dir, Stop
<1> DEFINE tests == [t \in Tests |-> IF t \in r.staged THEN "staged" ELSE Reset(d, r.base).tests[t]]
<1>3. /\ tests \in [Tests -> {"none", "untracked", "staged"}]
      /\ r.patch \in [Patches -> {"absent", "applied", "mangled"}]
      /\ r.base \in Commits /\ r.base \in 0..LastCommit
  BY <1>1, <1>2 DEF Stop, Commits
<1> DEFINE e1 == [d EXCEPT !.base = r.base]
           e2 == [e1 EXCEPT !.local = TRUE]
           e3 == [e2 EXCEPT !.patch = r.patch]
           e4 == [e3 EXCEPT !.conflict = FALSE]
           e5 == [e4 EXCEPT !.tests = tests]
           e6 == [e5 EXCEPT !.stop = {}]
<1>4. Aborted(d, r) = e6
  BY DEF Aborted
<1> HIDE DEF tests
<1>5. Aborted(d, r) \in Dir /\ Aborted(d, r).base = r.base /\ Aborted(d, r).fetched = d.fetched
      /\ Aborted(d, r).state = d.state /\ Aborted(d, r).stop = {} /\ Aborted(d, r).tests = tests
  <2>1. e1 \in Dir /\ e1.base = r.base /\ e1.fetched = d.fetched /\ e1.state = d.state
    BY <1>3, SetBase DEF Dirs
  <2> HIDE DEF e1
  <2>2. Alike(e1, e2)
    BY <2>1, SetField
  <2> HIDE DEF e2
  <2>3. Alike(e2, e3)
    BY <1>3, <2>2, SetField DEF Alike
  <2> HIDE DEF e3
  <2>4. Alike(e3, e4)
    BY <2>3, SetField DEF Alike
  <2> HIDE DEF e4
  <2>5. /\ e5 \in Dir /\ e5.state = e4.state /\ e5.fetched = e4.fetched
        /\ e5.base = e4.base /\ e5.tests = tests
    BY <1>3, <2>4, SetTests DEF Alike
  <2> HIDE DEF e5
  <2>6. /\ e6 \in Dir /\ e6.state = e5.state /\ e6.fetched = e5.fetched /\ e6.base = e5.base
        /\ e6.stop = {} /\ e6.tests = e5.tests
    BY <2>5 DEF Dir
  <2> HIDE DEF e6
  <2> QED BY <1>4, <2>1, <2>2, <2>3, <2>4, <2>5, <2>6 DEF Alike
<1>6. tests = [t \in Tests |-> IF t \in r.staged THEN "staged"
                               ELSE IF d.tests[t] = "staged" THEN "none" ELSE d.tests[t]]
  BY <1>2 DEF tests
<1> QED BY <1>3, <1>5, <1>6 DEF Dirs

LEMMA OverlayDir ==
  ASSUME NEW d \in Dirs, NEW S
  PROVE  /\ Overlaid(d, S) \in Dirs /\ Overlaid(d, S).base = d.base
         /\ Overlaid(d, S).stop = d.stop
         /\ Overlaid(d, S).tests = [t \in Tests |-> IF t \in S /\ d.tests[t] = "none"
                                                    THEN "untracked" ELSE d.tests[t]]
BY DEF Dirs, Dir, Overlaid

LEMMA CheckoutStarts == Init => CheckoutInv
<1> SUFFICES ASSUME Init PROVE CheckoutInv
  OBVIOUS
<1>1. Types
  BY CheckoutAssumption DEF Init, Types, Dirs, Dir, NoDir, Update, Idle, Commits, Threads
<1> QED BY <1>1 DEF Init, CheckoutInv, Sound, Patched, Fetched, Idle

LEMMA IdleIsSound ==
  ASSUME NEW x, NEW d
  PROVE  Idle \in Update /\ Sound(x, Idle, d)
<1>1. 0 \in 0..LastCommit
  BY CheckoutAssumption
<1> QED BY <1>1 DEF Update, Idle, Sound, Patched, Fetched

\* A disturbed thread knows less.
LEMMA DisturbedIsSound ==
  ASSUME CheckoutInv, NEW x \in Threads, NEW d
  PROVE  Disturbed(x) \in Update /\ Sound(x, Disturbed(x), d)
<1>1. CASE upd[x].pc = "idle"
  BY <1>1, IdleIsSound DEF Disturbed
<1>2. CASE upd[x].pc # "idle"
  <2>1. upd[x] \in Update /\ Sound(x, upd[x], dir)
    BY DEF CheckoutInv, Types
  <2> DEFINE q == [upd[x] EXCEPT !.disturbed = (x = Job), !.seen = 0]
  <2>2. /\ q.pc = upd[x].pc /\ q.mode = upd[x].mode /\ q.want = upd[x].want
        /\ q.todo = upd[x].todo /\ q.saved = upd[x].saved /\ q.ok = upd[x].ok
        /\ q.seen = 0 /\ q.disturbed = (x = Job)
        /\ q \in Update
    <3>1. 0 \in 0..LastCommit /\ (x = Job) \in BOOLEAN
      BY CheckoutAssumption
    <3> QED BY <2>1, <3>1 DEF Update
  <2>3. Disturbed(x) = q
    BY <1>2 DEF Disturbed
  <2> HIDE DEF q
  <2> QED BY <2>1, <2>2, <2>3 DEF Sound, Patched, Fetched
<1> QED BY <1>1, <1>2

\* It is enough to look at the thread that takes the step.
LEMMA GoesKeeps ==
  ASSUME CheckoutInv, NEW a \in Threads, NEW r \in Update, NEW d \in Dirs,
         Goes(a, r, d), Sound(a, r, d), remote' \in Commits
  PROVE  CheckoutInv'
<1>1. /\ dir' = d
      /\ upd' = [x \in Threads |-> IF x = a THEN r ELSE IF d # dir THEN Disturbed(x) ELSE upd[x]]
  BY DEF Goes
<1>2. \A x \in Threads : upd'[x] \in Update /\ Sound(x, upd'[x], dir')
  <2> SUFFICES ASSUME NEW x \in Threads PROVE upd'[x] \in Update /\ Sound(x, upd'[x], dir')
    OBVIOUS
  <2>1. CASE x = a
    BY <1>1, <2>1
  <2>2. CASE x # a /\ d # dir
    <3>1. upd'[x] = Disturbed(x)
      BY <1>1, <2>2
    <3> QED BY <3>1, DisturbedIsSound
  <2>3. CASE x # a /\ d = dir
    <3>1. upd'[x] = upd[x] /\ dir' = dir
      BY <1>1, <2>3
    <3> QED BY <3>1 DEF CheckoutInv, Types
  <2> QED BY <2>1, <2>2, <2>3
<1>3. upd' \in [Threads -> Update]
  BY <1>1, <1>2
<1>4. \A x \in Threads : Sound(x, upd[x], dir)'
  BY <1>2 DEF Sound, Patched, Fetched
<1> QED BY <1>1, <1>3, <1>4 DEF CheckoutInv, Types

LEMMA FailsKeeps ==
  ASSUME CheckoutInv, NEW a \in Threads, NEW d \in Dirs, Fails(a, d), UNCHANGED remote
  PROVE  CheckoutInv'
BY IdleIsSound, GoesKeeps DEF Fails, CheckoutInv, Types

\* The update of a thread that only moves on.
LEMMA Moves ==
  ASSUME CheckoutInv, NEW a \in Threads, NEW pc \in {"enter", "clone", "compare", "update", "abort",
           "restore", "patch", "run"}
  PROVE  /\ To(a, pc) \in Update
         /\ To(a, pc).pc = pc /\ To(a, pc).todo = upd[a].todo /\ To(a, pc).want = upd[a].want
         /\ To(a, pc).mode = upd[a].mode /\ To(a, pc).seen = upd[a].seen
         /\ To(a, pc).ok = upd[a].ok /\ To(a, pc).disturbed = upd[a].disturbed
         /\ To(a, pc).saved = upd[a].saved
BY DEF CheckoutInv, Types, Update, To

LEMMA BeginKeeps == ASSUME CheckoutInv, NEW a \in Threads, Begin(a) PROVE CheckoutInv'
<1>1. PICK m \in Modes[a], w \in Lists[a] :
        Goes(a, [Idle EXCEPT !.pc = "enter", !.mode = m, !.want = w, !.todo = w], dir)
  BY DEF Begin
<1> DEFINE r == [Idle EXCEPT !.pc = "enter", !.mode = m, !.want = w, !.todo = w]
<1>2. m \in {"reset", "rebase"} /\ w \subseteq Patches
  BY CheckoutAssumption DEF Threads
<1>3. r \in Update /\ r.pc = "enter" /\ r.want = w /\ r.todo = w /\ r.seen = 0
  <2>1. Idle.seen = 0
    BY DEF Idle
  <2> QED BY <1>2, <2>1, IdleIsSound DEF Update
<1>4. Goes(a, r, dir) /\ dir \in Dirs /\ remote' \in Commits
  BY <1>1 DEF Begin, CheckoutInv, Types
<1> HIDE DEF r
<1>5. Sound(a, r, dir)
  BY <1>3 DEF Sound, Patched, Fetched
<1> QED BY <1>3, <1>4, <1>5, GoesKeeps

LEMMA FetchKeeps == ASSUME CheckoutInv, NEW a \in Threads, Fetch(a) PROVE CheckoutInv'
<1>1. /\ remote \in Commits /\ remote' \in Commits /\ dir \in Dirs /\ Sound(a, upd[a], dir)
      /\ upd[a].pc = "enter"
  BY DEF CheckoutInv, Types, Fetch, At
<1>2. CASE Goes(a, [To(a, "compare") EXCEPT !.seen = remote], [dir EXCEPT !.fetched = remote])
  <2> DEFINE r == [To(a, "compare") EXCEPT !.seen = remote]
             d == [dir EXCEPT !.fetched = remote]
  <2>1. r \in Update /\ r.pc = "compare" /\ r.todo = upd[a].todo /\ r.want = upd[a].want
        /\ r.seen = remote
    BY <1>1, Moves DEF Update, Commits
  <2>2. d \in Dirs /\ d.fetched = remote
    BY <1>1 DEF Dirs, Dir, Commits
  <2>3. Goes(a, r, d)
    BY <1>2
  <2> HIDE DEF r, d
  <2>4. Sound(a, r, d)
    BY <1>1, <2>1, <2>2 DEF Sound, Patched, Fetched
  <2> QED BY <1>1, <2>1, <2>2, <2>3, <2>4, GoesKeeps
<1>3. CASE Goes(a, To(a, "compare"), dir)
  <2>1. Sound(a, To(a, "compare"), dir)
    BY <1>1, Moves DEF Sound, Patched, Fetched
  <2> QED BY <1>1, <1>3, <2>1, Moves, GoesKeeps
<1> QED BY <1>2, <1>3 DEF Fetch

LEMMA FetchFailsKeeps == ASSUME CheckoutInv, NEW a \in Threads, FetchFails(a) PROVE CheckoutInv'
<1>1. /\ remote' \in Commits /\ UNCHANGED remote /\ dir \in Dirs /\ Sound(a, upd[a], dir)
      /\ upd[a].pc = "enter"
      /\ Fails(a, dir) \/ Goes(a, To(a, "patch"), dir)
  BY DEF CheckoutInv, Types, FetchFails, At
<1>2. Sound(a, To(a, "patch"), dir)
  BY <1>1, Moves DEF Sound, Patched, Fetched
<1> QED BY <1>1, <1>2, Moves, GoesKeeps, FailsKeeps

LEMMA CloneKeeps ==
  ASSUME CheckoutInv, NEW a \in Threads, StartClone(a) \/ EndClone(a) \/ CloneFails(a)
  PROVE  CheckoutInv'
<1>1. remote \in Commits /\ remote' \in Commits /\ UNCHANGED remote
      /\ dir \in Dirs /\ Sound(a, upd[a], dir)
  BY DEF CheckoutInv, Types, StartClone, EndClone, CloneFails
<1>2. CASE StartClone(a)
  <2> DEFINE d == [dir EXCEPT !.state = "partial"]
  <2>1. d \in Dirs
    BY <1>1 DEF Dirs, Dir
  <2>2. Sound(a, To(a, "clone"), d)
    BY <1>1, <1>2, Moves DEF StartClone, At, Sound, Patched, Fetched
  <2>3. Goes(a, To(a, "clone"), d)
    BY <1>2 DEF StartClone
  <2> QED BY <1>1, <2>1, <2>2, <2>3, Moves, GoesKeeps
<1>3. CASE EndClone(a)
  <2> DEFINE r == [To(a, "patch") EXCEPT !.seen = remote]
  <2>1. r \in Update /\ r.pc = "patch" /\ r.todo = upd[a].todo /\ r.want = upd[a].want
        /\ r.seen = remote
    BY <1>1, Moves DEF Update, Commits
  <2>2. upd[a].pc = "clone" /\ Goes(a, r, Cloned(dir, remote))
    BY <1>3 DEF EndClone, At
  <2> HIDE DEF r
  <2>3. Sound(a, r, Cloned(dir, remote))
    BY <1>1, <2>1, <2>2, CloneDir DEF Sound, Patched, Fetched
  <2> QED BY <1>1, <2>1, <2>2, <2>3, CloneDir, GoesKeeps
<1>4. CASE CloneFails(a)
  <2>1. PICK d \in {[dir EXCEPT !.state = "none"], dir, [Cloned(dir, remote) EXCEPT !.torn = TRUE]} :
          Fails(a, d)
    BY <1>4 DEF CloneFails
  <2>2. [dir EXCEPT !.state = "none"] \in Dirs
    BY <1>1 DEF Dirs, Dir
  <2>3. ASSUME NEW e \in Dirs PROVE [e EXCEPT !.torn = TRUE] \in Dirs
    BY DEF Dirs, Dir
  <2> QED BY <1>1, <2>1, <2>2, <2>3, CloneDir, FailsKeeps
<1> QED BY <1>2, <1>3, <1>4

LEMMA CompareKeeps == ASSUME CheckoutInv, NEW a \in Threads, Compare(a) PROVE CheckoutInv'
<1>1. /\ remote' \in Commits /\ UNCHANGED remote /\ dir \in Dirs /\ Sound(a, upd[a], dir)
      /\ upd[a].pc = "compare" /\ upd[a] \in Update
  BY DEF CheckoutInv, Types, Compare, At
<1>2. CASE Fails(a, dir)
  BY <1>1, <1>2, FailsKeeps
<1>3. CASE Goes(a, To(a, "update"), dir)
  <2>1. Sound(a, To(a, "update"), dir)
    BY <1>1, Moves DEF Sound, Patched, Fetched
  <2> QED BY <1>1, <1>3, <2>1, Moves, GoesKeeps
<1>4. CASE dir.base = dir.fetched /\ Goes(a, To(a, "patch"), dir)
  <2>1. Sound(a, To(a, "patch"), dir)
    BY <1>1, <1>4, Moves DEF Sound, Patched, Fetched
  <2> QED BY <1>1, <1>4, <2>1, Moves, GoesKeeps
<1>5. ASSUME NEW S \in Backups(a), Goes(a, [To(a, "update") EXCEPT !.saved = S], dir)
      PROVE  CheckoutInv'
  <2> DEFINE r == [To(a, "update") EXCEPT !.saved = S]
  <2>1. S \subseteq Tests
    BY <1>5 DEF Backups, Present
  <2>2. /\ r \in Update /\ r.pc = "update" /\ r.todo = upd[a].todo /\ r.want = upd[a].want
        /\ r.seen = upd[a].seen
    BY <2>1, Moves DEF Update
  <2>3. Goes(a, r, dir)
    BY <1>5
  <2> HIDE DEF r
  <2>4. Sound(a, r, dir)
    BY <1>1, <2>2 DEF Sound, Patched, Fetched
  <2> QED BY <1>1, <2>2, <2>3, <2>4, GoesKeeps
<1> QED BY <1>2, <1>3, <1>4, <1>5 DEF Compare

\* The end of a reset or a rebase.
LEMMA RestoringKeeps ==
  ASSUME CheckoutInv, NEW a \in Threads, NEW ok \in BOOLEAN, NEW d \in Dirs,
         Goes(a, Restoring(a, ok), d), UNCHANGED remote, upd[a].pc \in {"update", "abort"},
         ok => upd[a].pc = "update" /\ d.base = dir.fetched
  PROVE  CheckoutInv'
<1> DEFINE r == Restoring(a, ok)
<1>1. remote' \in Commits /\ Sound(a, upd[a], dir)
  BY DEF CheckoutInv, Types
<1>2. /\ r \in Update /\ r.pc = "restore" /\ r.todo = upd[a].todo /\ r.want = upd[a].want
      /\ r.seen = upd[a].seen /\ r.ok = ok
  BY Moves DEF Restoring, Update
<1> HIDE DEF r
<1>3. Sound(a, r, d)
  BY <1>1, <1>2 DEF Sound, Patched, Fetched
<1>4. Goes(a, r, d)
  BY DEF r
<1> QED BY <1>1, <1>2, <1>3, <1>4, GoesKeeps

LEMMA HardResetKeeps ==
  ASSUME CheckoutInv, NEW a \in Threads, HardReset(a) \/ HardResetKilled(a)
  PROVE  CheckoutInv'
<1>1. UNCHANGED remote /\ dir \in Dirs /\ upd[a].pc = "update"
  BY DEF CheckoutInv, Types, HardReset, HardResetKilled, Updates, At
<1>2. CASE HardReset(a)
  <2>1. CASE Resets(dir)
    <3>1. dir.fetched \in Commits
      BY <1>1, <2>1 DEF Dirs, Resets
    <3>2. Goes(a, Restoring(a, TRUE), Reset(dir, dir.fetched))
      <4>1. Resets(dir) = TRUE
        BY <2>1 DEF Resets
      <4> QED BY <1>2, <4>1 DEF HardReset
    <3> QED BY <1>1, <3>1, <3>2, ResetDir, RestoringKeeps
  <2>2. CASE ~Resets(dir)
    <3>1. Goes(a, Restoring(a, FALSE), dir)
      <4>1. Resets(dir) = FALSE
        BY <2>2 DEF Resets
      <4> QED BY <1>2, <4>1 DEF HardReset
    <3> QED BY <1>1, <3>1, RestoringKeeps
  <2> QED BY <2>1, <2>2
<1>3. CASE HardResetKilled(a)
  <2>1. PICK clean \in SUBSET Patches, removed \in SUBSET Staged(dir) :
          Goes(a, Restoring(a, FALSE),
            [dir EXCEPT !.torn = TRUE,
               !.patch = [p \in Patches |-> IF p \in clean THEN "absent" ELSE dir.patch[p]],
               !.tests = [t \in Tests |-> IF t \in removed THEN "none" ELSE dir.tests[t]]])
    BY <1>3 DEF HardResetKilled
  <2> DEFINE d == [dir EXCEPT !.torn = TRUE,
               !.patch = [p \in Patches |-> IF p \in clean THEN "absent" ELSE dir.patch[p]],
               !.tests = [t \in Tests |-> IF t \in removed THEN "none" ELSE dir.tests[t]]]
  <2>2. d \in Dirs
    <3>1. [p \in Patches |-> IF p \in clean THEN "absent" ELSE dir.patch[p]]
            \in [Patches -> {"absent", "applied", "mangled"}]
      BY <1>1 DEF Dirs, Dir
    <3>2. [t \in Tests |-> IF t \in removed THEN "none" ELSE dir.tests[t]]
            \in [Tests -> {"none", "untracked", "staged"}]
      BY <1>1 DEF Dirs, Dir
    <3> QED BY <1>1, <3>1, <3>2 DEF Dirs, Dir
  <2>3. Goes(a, Restoring(a, FALSE), d)
    BY <2>1
  <2> HIDE DEF d
  <2> QED BY <1>1, <2>2, <2>3, RestoringKeeps
<1> QED BY <1>2, <1>3

\* A rebase that has to be undone.
LEMMA ToAbortKeeps ==
  ASSUME CheckoutInv, NEW a \in Threads, NEW d \in Dirs, Goes(a, To(a, "abort"), d),
         UNCHANGED remote, upd[a].pc = "update", upd[a].mode = "rebase"
  PROVE  CheckoutInv'
<1>1. remote' \in Commits /\ Sound(a, upd[a], dir)
  BY DEF CheckoutInv, Types
<1>2. Sound(a, To(a, "abort"), d)
  BY <1>1, Moves DEF Sound, Patched, Fetched
<1> QED BY <1>1, <1>2, Moves, GoesKeeps

LEMMA RebaseKeeps ==
  ASSUME CheckoutInv, NEW a \in Threads, Rebase(a) \/ RebaseKilled(a) \/ Abort(a)
  PROVE  CheckoutInv'
<1>1. UNCHANGED remote /\ dir \in Dirs
  BY DEF CheckoutInv, Types, Rebase, RebaseKilled, Abort
<1>2. ~Refuses(dir) => dir.state = "whole" /\ dir.fetched \in Commits
  BY <1>1 DEF Dirs, Refuses
<1>3. CASE Rebase(a)
  <2>1. upd[a].pc = "update" /\ upd[a].mode = "rebase"
    BY <1>3 DEF Rebase, Updates, At
  <2>2. \/ Goes(a, To(a, "abort"), dir)
        \/ ~Refuses(dir) /\ Goes(a, To(a, "abort"), Stopped(dir, dir.fetched))
        \/ ~Refuses(dir) /\ Goes(a, Restoring(a, TRUE), Rebased(dir, dir.fetched))
    BY <1>3 DEF Rebase
  <2> QED BY <1>1, <1>2, <2>1, <2>2, StopDir, RebaseDir, ToAbortKeeps, RestoringKeeps
<1>4. CASE RebaseKilled(a)
  <2>1. /\ upd[a].pc = "update" /\ upd[a].mode = "rebase" /\ ~Refuses(dir)
        /\ Goes(a, To(a, "abort"), [Stopped(dir, dir.fetched) EXCEPT !.torn = TRUE])
    BY <1>4 DEF RebaseKilled, Updates, At
  <2> QED BY <1>1, <1>2, <2>1, StopDir, ToAbortKeeps
<1>5. CASE Abort(a)
  <2>1. upd[a].pc = "abort"
    BY <1>5 DEF Abort, At
  <2>2. \/ Goes(a, Restoring(a, FALSE), dir)
        \/ \E r \in dir.stop : Goes(a, Restoring(a, FALSE), Aborted(dir, r))
    BY <1>5 DEF Abort
  <2> QED BY <1>1, <2>1, <2>2, AbortDir, RestoringKeeps
<1> QED BY <1>3, <1>4, <1>5

LEMMA RestoreKeeps ==
  ASSUME CheckoutInv, NEW a \in Threads, Restore(a) \/ RestoreFails(a)
  PROVE  CheckoutInv'
<1>1. /\ UNCHANGED remote /\ remote' \in Commits /\ dir \in Dirs /\ upd[a].pc = "restore"
      /\ Sound(a, upd[a], dir)
  BY DEF CheckoutInv, Types, Restore, RestoreFails, At
<1>2. CASE RestoreFails(a)
  BY <1>1, <1>2, OverlayDir, FailsKeeps DEF RestoreFails
<1>3. CASE Restore(a)
  <2> DEFINE d == Overlaid(dir, upd[a].saved)
             r == [To(a, "patch") EXCEPT !.saved = {}, !.ok = TRUE]
  <2>1. d \in Dirs /\ d.base = dir.base
    BY <1>1, OverlayDir
  <2>2. \/ Fails(a, d)
        \/ /\ upd[a].ok \/ (upd[a].mode = "reset" /\ ~Strict(a))
           /\ Goes(a, r, d)
    BY <1>3 DEF Restore
  <2>3. /\ r \in Update /\ r.pc = "patch" /\ r.todo = upd[a].todo /\ r.want = upd[a].want
        /\ r.seen = upd[a].seen /\ r.mode = upd[a].mode
    <3>1. ASSUME NEW q \in Update, NEW e, e = [q EXCEPT !.saved = {}, !.ok = TRUE]
          PROVE  /\ e \in Update /\ e.pc = q.pc /\ e.todo = q.todo /\ e.want = q.want
                 /\ e.seen = q.seen /\ e.mode = q.mode
      BY <3>1 DEF Update
    <3>2. r = [To(a, "patch") EXCEPT !.saved = {}, !.ok = TRUE]
      OBVIOUS
    <3> DEFINE q == To(a, "patch")
    <3>3. /\ q \in Update /\ q.pc = "patch" /\ q.todo = upd[a].todo /\ q.want = upd[a].want
          /\ q.seen = upd[a].seen /\ q.mode = upd[a].mode
      BY Moves
    <3>4. r = [q EXCEPT !.saved = {}, !.ok = TRUE]
      BY <3>2
    <3> HIDE DEF r, q
    <3> QED BY <3>1, <3>3, <3>4
  <2> HIDE DEF d, r
  <2>4. ASSUME upd[a].ok \/ (upd[a].mode = "reset" /\ ~Strict(a)) PROVE Sound(a, r, d)
    BY <1>1, <2>1, <2>3, <2>4 DEF Sound, Patched, Fetched
  <2> QED BY <1>1, <2>1, <2>2, <2>3, <2>4, FailsKeeps, GoesKeeps
<1> QED BY <1>2, <1>3

LEMMA PatchKeeps ==
  ASSUME CheckoutInv, NEW a \in Threads, NEW p \in Patches,
         Skip(a, p) \/ Apply(a, p) \/ PatchFails(a, p) \/ ApplyKilled(a, p)
  PROVE  CheckoutInv'
<1>1. /\ UNCHANGED remote /\ remote' \in Commits /\ dir \in Dirs /\ upd[a].pc = "patch"
      /\ Sound(a, upd[a], dir) /\ upd[a] \in Update
  BY DEF CheckoutInv, Types, Skip, Apply, PatchFails, ApplyKilled, Due, At
<1> DEFINE r == Done(a, p)
<1>2. /\ r \in Update /\ r.pc = "patch" /\ r.todo = upd[a].todo \ {p} /\ r.want = upd[a].want
      /\ r.seen = upd[a].seen /\ r.mode = upd[a].mode /\ r.disturbed = upd[a].disturbed
  BY <1>1 DEF Done, Update
<1>3. CASE Skip(a, p)
  <2>1. Has(dir, p) /\ Goes(a, r, dir)
    BY <1>3 DEF Skip
  <2> HIDE DEF r
  <2>2. Sound(a, r, dir)
    BY <1>1, <1>2, <2>1 DEF Sound, Patched, Fetched
  <2> QED BY <1>1, <1>2, <2>1, <2>2, GoesKeeps
<1>4. CASE Apply(a, p)
  <2> DEFINE d == [dir EXCEPT !.patch[p] = "applied"]
  <2>1. Goes(a, r, d)
    BY <1>4 DEF Apply
  <2>2. /\ d \in Dirs /\ d.base = dir.base /\ d.patch = [dir.patch EXCEPT ![p] = "applied"]
        /\ dir.patch \in [Patches -> {"absent", "applied", "mangled"}]
    BY <1>1 DEF Dirs, Dir
  <2> HIDE DEF r, d
  <2>3. Has(d, p) /\ \A q \in Patches : Has(dir, q) => Has(d, q)
    BY <2>2 DEF Has
  <2>4. r.want \subseteq Patches
    BY <1>2 DEF Update
  <2>5. Sound(a, r, d)
    BY <1>1, <1>2, <2>2, <2>3, <2>4 DEF Sound, Patched, Fetched
  <2> QED BY <1>1, <1>2, <2>1, <2>2, <2>5, GoesKeeps
<1>5. CASE PatchFails(a, p)
  BY <1>1, <1>5, FailsKeeps DEF PatchFails
<1>6. CASE ApplyKilled(a, p)
  <2>1. [dir EXCEPT !.patch[p] = "mangled"] \in Dirs
    BY <1>1 DEF Dirs, Dir
  <2> QED BY <1>1, <1>6, <2>1, FailsKeeps DEF ApplyKilled
<1> QED BY <1>3, <1>4, <1>5, <1>6

LEMMA ReadyKeeps == ASSUME CheckoutInv, NEW a \in Threads, Ready(a) PROVE CheckoutInv'
<1>1. /\ UNCHANGED remote /\ remote' \in Commits /\ dir \in Dirs /\ Sound(a, upd[a], dir)
      /\ upd[a].pc = "patch" /\ upd[a].todo = {}
      /\ Fails(a, dir) \/ Goes(a, To(a, "run"), dir)
  BY DEF CheckoutInv, Types, Ready, At, Fails
<1>2. Sound(a, To(a, "run"), dir)
  BY <1>1, Moves DEF Sound, Patched, Fetched
<1> QED BY <1>1, <1>2, Moves, FailsKeeps, GoesKeeps

LEMMA GenerateKeeps == ASSUME CheckoutInv, NEW t \in Tests, Generate(t) PROVE CheckoutInv'
<1>1. /\ UNCHANGED remote /\ remote' \in Commits /\ dir \in Dirs /\ Job \in Threads
      /\ upd[Job] \in Update /\ Sound(Job, upd[Job], dir) /\ upd[Job].pc = "run"
  BY DEF CheckoutInv, Types, Generate, At, Threads
<1>2. PICK how \in {"untracked", "staged"} : Goes(Job, upd[Job], [dir EXCEPT !.tests[t] = how])
  BY DEF Generate
<1> DEFINE d == [dir EXCEPT !.tests[t] = how]
<1>3. d \in Dirs /\ d.base = dir.base /\ d.patch = dir.patch
  BY <1>1 DEF Dirs, Dir
<1>4. Goes(Job, upd[Job], d)
  BY <1>2
<1> HIDE DEF d
<1>5. Sound(Job, upd[Job], d)
  BY <1>1, <1>3 DEF Sound, Patched, Fetched, Has
<1> QED BY <1>1, <1>3, <1>4, <1>5, GoesKeeps

LEMMA CommitKeeps == ASSUME CheckoutInv, Commit PROVE CheckoutInv'
<1>1. /\ UNCHANGED remote /\ remote' \in Commits /\ dir \in Dirs
      /\ dir' = [dir EXCEPT !.local = TRUE] /\ upd' = [x \in Threads |-> Disturbed(x)]
  BY DEF CheckoutInv, Types, Commit
<1>2. dir' \in Dirs
  BY <1>1 DEF Dirs, Dir
<1>3. \A x \in Threads : upd'[x] \in Update /\ Sound(x, upd'[x], dir')
  <2> SUFFICES ASSUME NEW x \in Threads PROVE upd'[x] \in Update /\ Sound(x, upd'[x], dir')
    OBVIOUS
  <2>1. upd'[x] = Disturbed(x)
    BY <1>1
  <2> QED BY <2>1, DisturbedIsSound
<1> QED BY <1>1, <1>2, <1>3 DEF CheckoutInv, Types, Sound, Patched, Fetched

LEMMA CrashKeeps == ASSUME CheckoutInv, Crash PROVE CheckoutInv'
<1>1. /\ UNCHANGED remote /\ remote \in Commits /\ dir \in Dirs
      /\ dir' = dir \/ dir' = Cloned(dir, remote)
      /\ upd' = [a \in Threads |-> Idle]
  BY DEF CheckoutInv, Types, Crash
<1>2. dir' \in Dirs
  BY <1>1, CloneDir
<1>3. \A x \in Threads : upd'[x] \in Update /\ Sound(x, upd'[x], dir')
  <2> SUFFICES ASSUME NEW x \in Threads PROVE upd'[x] \in Update /\ Sound(x, upd'[x], dir')
    OBVIOUS
  <2>1. upd'[x] = Idle
    BY <1>1
  <2> QED BY <2>1, IdleIsSound
<1> QED BY <1>1, <1>2, <1>3 DEF CheckoutInv, Types, Sound, Patched, Fetched

\* Every step keeps the invariant.
LEMMA CheckoutKeeps == CheckoutInv /\ [Next]_vars => CheckoutInv'
<1> SUFFICES ASSUME CheckoutInv, [Next]_vars PROVE CheckoutInv'
  OBVIOUS
<1>1. ASSUME NEW a \in Threads, Begin(a) PROVE CheckoutInv'
  BY <1>1, BeginKeeps
<1>2. ASSUME NEW a \in Threads, Updating(a) PROVE CheckoutInv'
  BY <1>2, FetchKeeps, CloneKeeps, CompareKeeps, HardResetKeeps, RebaseKeeps, RestoreKeeps,
     PatchKeeps, ReadyKeeps DEF Updating
<1>3. Job \in Threads /\ dir \in Dirs
  BY DEF Threads, CheckoutInv, Types
<1>4. ASSUME NEW a \in Threads, Failing(a) PROVE CheckoutInv'
  <2>1. ASSUME a = Job, Canceled PROVE CheckoutInv'
    BY <1>3, <2>1, FailsKeeps DEF Canceled
  <2> QED BY <1>4, <2>1, FetchFailsKeeps, CloneKeeps, HardResetKeeps, RebaseKeeps, RestoreKeeps,
             PatchKeeps DEF Failing
<1>5. CASE FinishRun
  BY <1>3, <1>5, FailsKeeps DEF FinishRun
<1>6. CASE Push
  <2>1. remote' \in Commits /\ UNCHANGED <<dir, upd>>
    BY <1>6, CheckoutAssumption DEF Push, CheckoutInv, Types, Commits
  <2> QED BY <2>1 DEF CheckoutInv, Types, Sound, Patched, Fetched
<1>7. CASE UNCHANGED vars
  BY <1>7 DEF vars, CheckoutInv, Types, Sound, Patched, Fetched
<1> QED BY <1>1, <1>2, <1>4, <1>5, <1>6, <1>7, GenerateKeeps, CommitKeeps, CrashKeeps DEF Next

\* GENUT runs on a tree that has all patches of the product, unless another thread has
\* changed it since (ensure_checkout, apply_patch).
THEOREM PatchesAreApplied == Spec => []RunsPatched
<1>1. CheckoutInv => RunsPatched
  <2>1. Job \in Threads
    BY DEF Threads
  <2> QED BY <2>1 DEF CheckoutInv, Sound, Patched, RunsPatched, At
<1> QED BY <1>1, CheckoutStarts, CheckoutKeeps, PTL DEF Spec

\* A download that reports success, and a job in mode "rebase", work on the commit they have
\* fetched (ensure_checkout).
THEOREM NoOldCode == Spec => []SuccessIsCurrent
<1>1. CheckoutInv => SuccessIsCurrent
  BY DEF CheckoutInv, Sound, Fetched, SuccessIsCurrent
<1> QED BY <1>1, CheckoutStarts, CheckoutKeeps, PTL DEF Spec

-----------------------------------------------------------------------------
(* The tests that GENUT has written *)

\* Only a thread in an update has a backup.
BackupsInUpdates ==
  \A x \in Threads : upd[x].pc \notin {"update", "abort", "restore"} => upd[x].saved = {}

\* What a git command of thread x may remove is in its backup.
RiskIsKnown ==
  \A x \in Threads : upd[x].pc \in {"update", "abort"} => Staged(dir) \subseteq upd[x].saved \cup exposed

OneStop == \A r, s \in dir.stop : r = s

\* The second inductive invariant, relative to the first.
TestsInv == BackupsInUpdates /\ RiskIsKnown /\ OneStop /\ TestsKept

\* Where the tests are that thread x with the update r can see.
Held(r, d) == Present(d) \cup r.saved \cup UNION {s.staged : s \in d.stop}

LEMMA TestsStart == Init => TestsInv
<1> SUFFICES ASSUME Init PROVE TestsInv
  OBVIOUS
<1>1. \A x \in Threads : upd[x] = Idle
  BY DEF Init
<1>2. Idle.saved = {} /\ Idle.pc = "idle"
  BY DEF Idle
<1>3. dir.stop = {} /\ made = {}
  BY DEF Init, NoDir
<1> QED BY <1>1, <1>2, <1>3 DEF TestsInv, BackupsInUpdates, RiskIsKnown, OneStop, TestsKept

\* A disturbed thread keeps its backup.
LEMMA DisturbedKeeps ==
  ASSUME CheckoutInv, BackupsInUpdates, NEW x \in Threads
  PROVE  Disturbed(x).saved = upd[x].saved /\ Disturbed(x).pc = upd[x].pc
<1>1. CASE upd[x].pc = "idle"
  <2>1. Disturbed(x) = Idle /\ upd[x].saved = {}
    BY <1>1 DEF Disturbed, BackupsInUpdates
  <2> QED BY <1>1, <2>1 DEF Idle
<1>2. CASE upd[x].pc # "idle"
  <2>1. upd[x] \in Update
    BY DEF CheckoutInv, Types
  <2>2. ASSUME NEW q, q = [upd[x] EXCEPT !.disturbed = (x = Job), !.seen = 0]
        PROVE  q.saved = upd[x].saved /\ q.pc = upd[x].pc
    BY <2>1, <2>2 DEF Update
  <2> QED BY <1>2, <2>2 DEF Disturbed
<1> QED BY <1>1, <1>2

\* It is enough to look at the thread that takes the step.
LEMMA GoesHolds ==
  ASSUME CheckoutInv, TestsInv, NEW a \in Threads, NEW r \in Update, NEW d \in Dirs, Goes(a, r, d),
         \A s, t \in d.stop : s = t,
         r.pc \notin {"update", "abort", "restore"} => r.saved = {},
         \/ \E S : exposed \subseteq S /\ Exposes(S)
         \/ exposed' = exposed /\ Staged(d) \subseteq Staged(dir) /\ r.pc \notin {"update", "abort"},
         Held(upd[a], dir) \subseteq Held(r, d) \cup exposed',
         UNCHANGED <<made, orphans>>
  PROVE  TestsInv'
<1>1. /\ dir' = d /\ upd'[a] = r
      /\ \A x \in Threads \ {a} : upd'[x].saved = upd[x].saved /\ upd'[x].pc = upd[x].pc
  <2>1. /\ dir' = d
        /\ upd' = [x \in Threads |-> IF x = a THEN r ELSE IF d # dir THEN Disturbed(x) ELSE upd[x]]
    BY DEF Goes
  <2> QED BY <2>1, DisturbedKeeps DEF TestsInv
<1>2. exposed \subseteq exposed'
  BY DEF Exposes
<1>3. BackupsInUpdates'
  BY <1>1 DEF TestsInv, BackupsInUpdates
<1>4. RiskIsKnown'
  <2>1. CASE \E S : exposed \subseteq S /\ Exposes(S)
    <3>1. PICK S : exposed' = S \cup {t \in Staged(dir') :
                       \E x \in Threads : /\ upd'[x].pc \in {"update", "abort"}
                                          /\ t \notin upd'[x].saved}
      BY <2>1 DEF Exposes
    <3>2. \A x \in Threads : upd'[x].pc \in {"update", "abort"} =>
            \A t \in Staged(dir') : t \in upd'[x].saved \/ t \in exposed'
      BY <3>1
    <3>3. Staged(dir)' = Staged(dir')
      BY DEF Staged
    <3> QED BY <3>2, <3>3 DEF RiskIsKnown
  <2>2. CASE exposed' = exposed /\ Staged(d) \subseteq Staged(dir) /\ r.pc \notin {"update", "abort"}
    <3>1. Staged(dir)' = Staged(d)
      BY <1>1 DEF Staged
    <3> QED BY <1>1, <2>2, <3>1 DEF TestsInv, RiskIsKnown
  <2> QED BY <2>1, <2>2
<1>5. OneStop'
  BY <1>1 DEF OneStop
<1>6. TestsKept'
  <2> SUFFICES ASSUME NEW t \in made, t \notin exposed'
               PROVE  \/ t \in Present(d) \cup orphans
                      \/ \E x \in Threads : t \in upd'[x].saved
                      \/ \E s \in d.stop : t \in s.staged
    <3>1. Present(dir)' = Present(d)
      BY <1>1 DEF Present
    <3> QED BY <1>1, <3>1 DEF TestsKept
  <2>1. \/ t \in Present(dir) \cup orphans
        \/ \E x \in Threads : t \in upd[x].saved
        \/ \E s \in dir.stop : t \in s.staged
    BY <1>2 DEF TestsInv, TestsKept
  <2>2. CASE t \in Held(upd[a], dir)
    <3>1. t \in Held(r, d)
      BY <2>2
    <3> QED BY <1>1, <3>1 DEF Held
  <2>3. CASE t \in orphans
    BY <2>3
  <2>4. CASE \E x \in Threads \ {a} : t \in upd[x].saved
    BY <1>1, <2>4
  <2> QED BY <2>1, <2>2, <2>3, <2>4 DEF Held
<1> QED BY <1>3, <1>4, <1>5, <1>6 DEF TestsInv

\* Steps outside the window, which leave the tests where they are.
LEMMA QuietHolds ==
  ASSUME CheckoutInv, TestsInv, NEW a \in Threads, NEW r \in Update, NEW d \in Dirs, Goes(a, r, d),
         d.tests = dir.tests, d.stop = dir.stop,
         upd[a].pc \notin {"update", "abort", "restore"}, r.saved = {},
         r.pc \notin {"update", "abort"}, UNCHANGED <<made, orphans, exposed>>
  PROVE  TestsInv'
<1>1. Staged(d) = Staged(dir) /\ Present(d) = Present(dir) /\ upd[a].saved = {}
  BY DEF Staged, Present, TestsInv, BackupsInUpdates
<1>2. Held(upd[a], dir) = Held(r, d)
  BY <1>1 DEF Held
<1>3. \A s, t \in d.stop : s = t
  BY DEF TestsInv, OneStop
<1> QED BY <1>1, <1>2, <1>3, GoesHolds

LEMMA FailsHolds ==
  ASSUME CheckoutInv, TestsInv, NEW a \in Threads, NEW d \in Dirs, Fails(a, d),
         d.tests = dir.tests, d.stop = dir.stop,
         upd[a].pc \notin {"update", "abort", "restore"}, UNCHANGED <<made, orphans, exposed>>
  PROVE  TestsInv'
<1>1. Idle \in Update /\ Idle.saved = {} /\ Idle.pc = "idle" /\ Goes(a, Idle, d)
  BY IdleIsSound DEF Idle, Fails
<1> QED BY <1>1, QuietHolds

LEMMA BeginHolds == ASSUME CheckoutInv, TestsInv, NEW a \in Threads, Begin(a) PROVE TestsInv'
<1>1. PICK m \in Modes[a], w \in Lists[a] :
        Goes(a, [Idle EXCEPT !.pc = "enter", !.mode = m, !.want = w, !.todo = w], dir)
  BY DEF Begin
<1> DEFINE r == [Idle EXCEPT !.pc = "enter", !.mode = m, !.want = w, !.todo = w]
<1>2. m \in {"reset", "rebase"} /\ w \subseteq Patches
  BY CheckoutAssumption DEF Threads
<1>3. r \in Update /\ r.pc = "enter" /\ r.saved = {}
  <2>1. Idle.saved = {}
    BY DEF Idle
  <2> QED BY <1>2, <2>1, IdleIsSound DEF Update
<1>4. /\ Goes(a, r, dir) /\ dir \in Dirs /\ upd[a].pc = "idle"
      /\ UNCHANGED <<made, orphans, exposed>>
  BY <1>1 DEF Begin, At, CheckoutInv, Types, history
<1> HIDE DEF r
<1> QED BY <1>3, <1>4, QuietHolds

LEMMA FetchHolds ==
  ASSUME CheckoutInv, TestsInv, NEW a \in Threads, Fetch(a) \/ FetchFails(a)
  PROVE  TestsInv'
<1>1. /\ remote \in Commits /\ dir \in Dirs /\ upd[a].pc = "enter" /\ upd[a].saved = {}
      /\ UNCHANGED <<made, orphans, exposed>>
  BY DEF CheckoutInv, Types, Fetch, FetchFails, At, history, TestsInv, BackupsInUpdates
<1> DEFINE r == [To(a, "compare") EXCEPT !.seen = remote]
           d == [dir EXCEPT !.fetched = remote]
<1>2. r \in Update /\ r.pc = "compare" /\ r.saved = {}
  BY <1>1, Moves DEF Update, Commits
<1>3. d \in Dirs /\ d.tests = dir.tests /\ d.stop = dir.stop
  BY <1>1 DEF Dirs, Dir, Commits
<1>4. \/ Goes(a, r, d) \/ Goes(a, To(a, "compare"), dir) \/ Fails(a, dir)
      \/ Goes(a, To(a, "patch"), dir)
  BY DEF Fetch, FetchFails
<1> HIDE DEF r, d
<1>5. /\ To(a, "compare") \in Update /\ To(a, "compare").pc = "compare" /\ To(a, "compare").saved = {}
      /\ To(a, "patch") \in Update /\ To(a, "patch").pc = "patch" /\ To(a, "patch").saved = {}
  BY <1>1, Moves
<1> QED BY <1>1, <1>2, <1>3, <1>4, <1>5, QuietHolds, FailsHolds

LEMMA CloneHolds ==
  ASSUME CheckoutInv, TestsInv, NEW a \in Threads, StartClone(a) \/ EndClone(a) \/ CloneFails(a)
  PROVE  TestsInv'
<1>1. /\ remote \in Commits /\ dir \in Dirs /\ upd[a].pc \in {"enter", "clone"} /\ upd[a].saved = {}
      /\ UNCHANGED <<made, orphans, exposed>>
  BY DEF CheckoutInv, Types, StartClone, EndClone, CloneFails, At, history, TestsInv,
         BackupsInUpdates
<1>2. CASE StartClone(a)
  <2> DEFINE d == [dir EXCEPT !.state = "partial"]
  <2>1. d \in Dirs /\ d.tests = dir.tests /\ d.stop = dir.stop
    BY <1>1 DEF Dirs, Dir
  <2>2. Goes(a, To(a, "clone"), d)
    BY <1>2 DEF StartClone
  <2>3. To(a, "clone") \in Update /\ To(a, "clone").pc = "clone" /\ To(a, "clone").saved = {}
    BY <1>1, Moves
  <2> HIDE DEF d
  <2> QED BY <1>1, <2>1, <2>2, <2>3, QuietHolds
<1>3. CASE EndClone(a)
  <2> DEFINE r == [To(a, "patch") EXCEPT !.seen = remote]
  <2>1. r \in Update /\ r.pc = "patch" /\ r.saved = {}
    BY <1>1, Moves DEF Update, Commits
  <2>2. Goes(a, r, Cloned(dir, remote))
    BY <1>3 DEF EndClone
  <2> HIDE DEF r
  <2> QED BY <1>1, <2>1, <2>2, CloneDir, QuietHolds
<1>4. CASE CloneFails(a)
  <2>1. PICK d \in {[dir EXCEPT !.state = "none"], dir, [Cloned(dir, remote) EXCEPT !.torn = TRUE]} :
          Fails(a, d)
    BY <1>4 DEF CloneFails
  <2>2. ASSUME NEW e, e = [dir EXCEPT !.state = "none"]
        PROVE  e \in Dirs /\ e.tests = dir.tests /\ e.stop = dir.stop
    BY <1>1, <2>2 DEF Dirs, Dir
  <2>3. ASSUME NEW q \in Dirs, NEW e, e = [q EXCEPT !.torn = TRUE]
        PROVE  e \in Dirs /\ e.tests = q.tests /\ e.stop = q.stop
    BY <2>3 DEF Dirs, Dir
  <2>4. d \in Dirs /\ d.tests = dir.tests /\ d.stop = dir.stop
    BY <1>1, <2>1, <2>2, <2>3, CloneDir
  <2> QED BY <1>1, <2>1, <2>4, FailsHolds
<1> QED BY <1>2, <1>3, <1>4

LEMMA CompareHolds == ASSUME CheckoutInv, TestsInv, NEW a \in Threads, Compare(a) PROVE TestsInv'
<1>1. /\ dir \in Dirs /\ upd[a].pc = "compare" /\ upd[a].saved = {}
      /\ UNCHANGED <<made, orphans>> /\ Exposes(exposed)
      /\ \A s, t \in dir.stop : s = t
  BY DEF CheckoutInv, Types, Compare, At, TestsInv, BackupsInUpdates, OneStop
<1>2. ASSUME NEW r \in Update, Goes(a, r, dir),
             r.pc \notin {"update", "abort", "restore"} => r.saved = {}
      PROVE  TestsInv'
  <2>1. Held(upd[a], dir) \subseteq Held(r, dir)
    BY <1>1 DEF Held
  <2> QED BY <1>1, <1>2, <2>1, GoesHolds
<1>3. ASSUME NEW S \in Backups(a), Goes(a, [To(a, "update") EXCEPT !.saved = S], dir)
      PROVE  TestsInv'
  <2> DEFINE r == [To(a, "update") EXCEPT !.saved = S]
  <2>1. S \subseteq Tests
    BY <1>3 DEF Backups, Present
  <2>2. r \in Update /\ r.pc = "update"
    BY <2>1, Moves DEF Update
  <2>3. Goes(a, r, dir)
    BY <1>3
  <2> HIDE DEF r
  <2> QED BY <1>2, <2>2, <2>3
<1>4. Idle \in Update /\ Idle.saved = {}
  BY IdleIsSound DEF Idle
<1>5. \A pc \in {"update", "patch"} :
        To(a, pc) \in Update /\ To(a, pc).saved = {}
  BY <1>1, Moves
<1>6. \/ Goes(a, Idle, dir) \/ Goes(a, To(a, "update"), dir) \/ Goes(a, To(a, "patch"), dir)
      \/ \E S \in Backups(a) : Goes(a, [To(a, "update") EXCEPT !.saved = S], dir)
  BY DEF Compare, Fails
<1> QED BY <1>2, <1>3, <1>4, <1>5, <1>6

\* The git commands of an update: what they take from the tree is in the backup, exposed, or
\* put aside.
LEMMA CommandHolds ==
  ASSUME CheckoutInv, TestsInv, NEW a \in Threads, NEW r \in Update, NEW d \in Dirs, Goes(a, r, d),
         upd[a].pc \in {"update", "abort"}, r.saved = upd[a].saved,
         r.pc \in {"update", "abort", "restore"}, Exposes(exposed), UNCHANGED <<made, orphans>>,
         \A s, t \in d.stop : s = t,
         Present(dir) \ Staged(dir) \subseteq Present(d),
         \A s \in dir.stop : s.staged \subseteq Present(d) \cup UNION {t.staged : t \in d.stop}
  PROVE  TestsInv'
<1>1. exposed \subseteq exposed' /\ Staged(dir) \subseteq upd[a].saved \cup exposed
  BY DEF TestsInv, RiskIsKnown, Exposes
<1>2. ASSUME NEW t \in Held(upd[a], dir) PROVE t \in Held(r, d) \cup exposed'
  <2>1. CASE t \in Staged(dir) \/ t \in upd[a].saved
    BY <1>1, <2>1 DEF Held
  <2>2. CASE t \in Present(dir) \ Staged(dir)
    BY <2>2 DEF Held
  <2>3. CASE \E s \in dir.stop : t \in s.staged
    BY <2>3 DEF Held
  <2> QED BY <2>1, <2>2, <2>3 DEF Held
<1>3. Held(upd[a], dir) \subseteq Held(r, d) \cup exposed'
  BY <1>2
<1> QED BY <1>3, GoesHolds

LEMMA RestoringMoves ==
  ASSUME CheckoutInv, NEW a \in Threads, NEW ok \in BOOLEAN
  PROVE  /\ Restoring(a, ok) \in Update /\ Restoring(a, ok).pc = "restore"
         /\ Restoring(a, ok).saved = upd[a].saved
BY Moves DEF Restoring, Update

LEMMA HardResetHolds ==
  ASSUME CheckoutInv, TestsInv, NEW a \in Threads, HardReset(a) \/ HardResetKilled(a)
  PROVE  TestsInv'
<1>1. /\ dir \in Dirs /\ upd[a].pc = "update" /\ Exposes(exposed) /\ UNCHANGED <<made, orphans>>
      /\ \A s, t \in dir.stop : s = t
  BY DEF CheckoutInv, Types, HardReset, HardResetKilled, Updates, At, TestsInv, OneStop
<1>2. ASSUME NEW d \in Dirs, NEW ok \in BOOLEAN, Goes(a, Restoring(a, ok), d), d.stop = dir.stop,
             \A t \in Tests : d.tests[t] = dir.tests[t] \/ dir.tests[t] = "staged"
      PROVE  TestsInv'
  <2>1. Present(dir) \ Staged(dir) \subseteq Present(d)
    BY <1>2 DEF Present, Staged
  <2>2. \A s \in dir.stop : s.staged \subseteq UNION {t.staged : t \in d.stop}
    BY <1>2
  <2> QED BY <1>1, <1>2, <2>1, <2>2, RestoringMoves, CommandHolds
<1>3. CASE HardReset(a)
  <2>1. CASE Resets(dir)
    <3>1. dir.fetched \in Commits
      BY <1>1, <2>1 DEF Dirs, Resets
    <3>2. Goes(a, Restoring(a, TRUE), Reset(dir, dir.fetched))
      <4>1. Resets(dir) = TRUE
        BY <2>1 DEF Resets
      <4> QED BY <1>3, <4>1 DEF HardReset
    <3>3. \A t \in Tests : Reset(dir, dir.fetched).tests[t] = dir.tests[t] \/ dir.tests[t] = "staged"
      <4>1. Reset(dir, dir.fetched).tests
              = [t \in Tests |-> IF dir.tests[t] = "staged" THEN "none" ELSE dir.tests[t]]
        BY <1>1, <3>1, ResetDir
      <4> QED BY <4>1
    <3> QED BY <1>1, <1>2, <3>1, <3>2, <3>3, ResetDir
  <2>2. CASE ~Resets(dir)
    <3>1. Goes(a, Restoring(a, FALSE), dir)
      <4>1. Resets(dir) = FALSE
        BY <2>2 DEF Resets
      <4> QED BY <1>3, <4>1 DEF HardReset
    <3> QED BY <1>1, <1>2, <3>1
  <2> QED BY <2>1, <2>2
<1>4. CASE HardResetKilled(a)
  <2>1. PICK clean \in SUBSET Patches, removed \in SUBSET Staged(dir) :
          Goes(a, Restoring(a, FALSE),
            [dir EXCEPT !.torn = TRUE,
               !.patch = [p \in Patches |-> IF p \in clean THEN "absent" ELSE dir.patch[p]],
               !.tests = [t \in Tests |-> IF t \in removed THEN "none" ELSE dir.tests[t]]])
    BY <1>4 DEF HardResetKilled
  <2> DEFINE patch == [p \in Patches |-> IF p \in clean THEN "absent" ELSE dir.patch[p]]
             tests == [t \in Tests |-> IF t \in removed THEN "none" ELSE dir.tests[t]]
             d == [dir EXCEPT !.torn = TRUE, !.patch = patch, !.tests = tests]
  <2>2. /\ patch \in [Patches -> {"absent", "applied", "mangled"}]
        /\ tests \in [Tests -> {"none", "untracked", "staged"}]
    BY <1>1 DEF Dirs, Dir
  <2>3. \A t \in Tests : tests[t] = dir.tests[t] \/ dir.tests[t] = "staged"
    BY DEF Staged
  <2>4. Goes(a, Restoring(a, FALSE), d)
    BY <2>1
  <2> HIDE DEF patch, tests
  <2>5. d \in Dirs /\ d.stop = dir.stop /\ d.tests = tests
    BY <1>1, <2>2 DEF Dirs, Dir
  <2> HIDE DEF d
  <2> QED BY <1>2, <2>3, <2>4, <2>5
<1> QED BY <1>3, <1>4

LEMMA RebaseHolds ==
  ASSUME CheckoutInv, TestsInv, NEW a \in Threads, Rebase(a) \/ RebaseKilled(a) \/ Abort(a)
  PROVE  TestsInv'
<1>1. /\ dir \in Dirs /\ upd[a].pc \in {"update", "abort"} /\ Exposes(exposed)
      /\ UNCHANGED <<made, orphans>> /\ \A s, t \in dir.stop : s = t
  BY DEF CheckoutInv, Types, Rebase, RebaseKilled, Abort, Updates, At, TestsInv, OneStop
<1>2. ~Refuses(dir) => dir.state = "whole" /\ dir.fetched \in Commits /\ dir.stop = {}
  BY <1>1 DEF Dirs, Refuses
<1>3. /\ To(a, "abort") \in Update /\ To(a, "abort").pc = "abort"
      /\ To(a, "abort").saved = upd[a].saved
  BY Moves
<1>4. ASSUME NEW d \in Dirs, d.tests = dir.tests, d.stop = dir.stop,
             Goes(a, To(a, "abort"), d) \/ \E ok \in BOOLEAN : Goes(a, Restoring(a, ok), d)
      PROVE  TestsInv'
  <2>1. Present(d) = Present(dir) /\ \A s \in dir.stop : s.staged \subseteq UNION {t.staged : t \in d.stop}
    BY <1>4 DEF Present
  <2> QED BY <1>1, <1>3, <1>4, <2>1, RestoringMoves, CommandHolds
<1>5. ASSUME NEW d \in {Stopped(dir, dir.fetched), [Stopped(dir, dir.fetched) EXCEPT !.torn = TRUE]},
             ~Refuses(dir), Goes(a, To(a, "abort"), d)
      PROVE  TestsInv'
  <2>1. /\ d \in Dirs
        /\ d.tests = [t \in Tests |-> IF dir.tests[t] = "staged" THEN "none" ELSE dir.tests[t]]
        /\ \E s \in d.stop : d.stop = {s} /\ s.staged = Staged(dir)
    <3>1. dir.state = "whole" /\ dir.fetched \in Commits
      BY <1>2, <1>5
    <3>2. \A e \in {Stopped(dir, dir.fetched), [Stopped(dir, dir.fetched) EXCEPT !.torn = TRUE]} :
            /\ e \in Dirs
            /\ e.tests = [t \in Tests |-> IF dir.tests[t] = "staged" THEN "none" ELSE dir.tests[t]]
            /\ \E s \in e.stop : e.stop = {s} /\ s.staged = Staged(dir)
      BY <1>1, <3>1, StopDir
    <3> QED BY <1>5, <3>2
  <2>2. Present(dir) \ Staged(dir) \subseteq Present(d)
    BY <2>1 DEF Present, Staged
  <2>3. \A s, t \in d.stop : s = t
    BY <2>1
  <2> QED BY <1>1, <1>2, <1>3, <1>5, <2>1, <2>2, <2>3, CommandHolds
<1>6. CASE Rebase(a)
  <2>1. \/ Goes(a, To(a, "abort"), dir)
        \/ ~Refuses(dir) /\ Goes(a, To(a, "abort"), Stopped(dir, dir.fetched))
        \/ ~Refuses(dir) /\ Goes(a, Restoring(a, TRUE), Rebased(dir, dir.fetched))
    BY <1>6 DEF Rebase
  <2> QED BY <1>1, <1>2, <1>4, <1>5, <2>1, RebaseDir
<1>7. CASE RebaseKilled(a)
  BY <1>5, <1>7 DEF RebaseKilled
<1>8. CASE Abort(a)
  <2>1. ASSUME NEW r \in dir.stop, Goes(a, Restoring(a, FALSE), Aborted(dir, r)) PROVE TestsInv'
    <3> DEFINE d == Aborted(dir, r)
    <3>1. /\ d \in Dirs /\ d.stop = {}
          /\ d.tests = [t \in Tests |-> IF t \in r.staged THEN "staged"
                          ELSE IF dir.tests[t] = "staged" THEN "none" ELSE dir.tests[t]]
      BY <1>1, AbortDir
    <3>2. Goes(a, Restoring(a, FALSE), d)
      BY <2>1
    <3> HIDE DEF d
    <3>3. Present(dir) \ Staged(dir) \subseteq Present(d)
      BY <3>1 DEF Present, Staged
    <3>4. r.staged \subseteq Tests
      BY <1>1 DEF Dirs, Dir, Stop
    <3>5. \A s \in dir.stop : s.staged \subseteq Present(d)
      BY <1>1, <3>1, <3>4 DEF Present
    <3> QED BY <1>1, <3>1, <3>2, <3>3, <3>5, RestoringMoves, CommandHolds
  <2>2. \/ Goes(a, Restoring(a, FALSE), dir)
        \/ \E r \in dir.stop : Goes(a, Restoring(a, FALSE), Aborted(dir, r))
    BY <1>8 DEF Abort
  <2> QED BY <1>1, <1>4, <2>1, <2>2
<1> QED BY <1>6, <1>7, <1>8

LEMMA RestoreHolds ==
  ASSUME CheckoutInv, TestsInv, NEW a \in Threads, Restore(a) \/ RestoreFails(a)
  PROVE  TestsInv'
<1>1. /\ dir \in Dirs /\ upd[a].pc = "restore" /\ upd[a].saved \subseteq Tests
      /\ UNCHANGED <<made, orphans>> /\ \A s, t \in dir.stop : s = t
  BY DEF CheckoutInv, Types, Update, Restore, RestoreFails, At, TestsInv, OneStop, history
<1>2. Idle \in Update /\ Idle.saved = {} /\ Idle.pc = "idle"
  BY IdleIsSound DEF Idle
<1>3. ASSUME NEW S \in SUBSET upd[a].saved
      PROVE  /\ Staged(Overlaid(dir, S)) \subseteq Staged(dir)
             /\ Present(Overlaid(dir, S)) = Present(dir) \cup S
             /\ Overlaid(dir, S) \in Dirs /\ Overlaid(dir, S).stop = dir.stop
  <2> DEFINE d == Overlaid(dir, S)
  <2>1. /\ d \in Dirs /\ d.stop = dir.stop
        /\ d.tests = [t \in Tests |-> IF t \in S /\ dir.tests[t] = "none" THEN "untracked"
                                      ELSE dir.tests[t]]
    BY <1>1, OverlayDir
  <2> HIDE DEF d
  <2>2. Staged(d) \subseteq Staged(dir)
    BY <2>1 DEF Staged
  <2>3. S \subseteq Tests
    BY <1>1
  <2>4. Present(d) = Present(dir) \cup S
    BY <2>1, <2>3 DEF Present
  <2> QED BY <2>1, <2>2, <2>4 DEF d
<1>4. CASE RestoreFails(a)
  <2>1. PICK S \in SUBSET upd[a].saved :
          Fails(a, Overlaid(dir, S)) /\ Exposes(exposed \cup (upd[a].saved \ S))
    BY <1>4 DEF RestoreFails
  <2>2. exposed \cup (upd[a].saved \ S) \subseteq exposed'
    BY <2>1 DEF Exposes
  <2>3. Held(upd[a], dir) \subseteq Held(Idle, Overlaid(dir, S)) \cup exposed'
    BY <1>3, <2>2 DEF Held
  <2>4. Goes(a, Idle, Overlaid(dir, S))
    BY <2>1 DEF Fails
  <2>5. \E T : exposed \subseteq T /\ Exposes(T)
    BY <2>1
  <2> QED BY <1>1, <1>2, <1>3, <2>3, <2>4, <2>5, GoesHolds
<1>5. CASE Restore(a)
  <2> DEFINE d == Overlaid(dir, upd[a].saved)
  <2>1. /\ Staged(d) \subseteq Staged(dir) /\ Present(d) = Present(dir) \cup upd[a].saved
        /\ d \in Dirs /\ d.stop = dir.stop
    BY <1>3
  <2>2. ASSUME NEW r \in Update, Goes(a, r, d), r.saved = {}, r.pc \in {"idle", "patch"}
        PROVE  TestsInv'
    <3> HIDE DEF d
    <3>1. Held(upd[a], dir) \subseteq Held(r, d)
      BY <2>1 DEF Held
    <3>2. UNCHANGED exposed
      BY <1>5 DEF Restore, history
    <3> QED BY <1>1, <2>1, <2>2, <3>1, <3>2, GoesHolds
  <2>3. ASSUME NEW q \in Update, NEW e, e = [q EXCEPT !.saved = {}, !.ok = TRUE]
        PROVE  e \in Update /\ e.pc = q.pc /\ e.saved = {}
    BY <2>3 DEF Update
  <2>4. To(a, "patch") \in Update /\ To(a, "patch").pc = "patch"
    BY Moves
  <2>5. \/ Goes(a, Idle, d)
        \/ Goes(a, [To(a, "patch") EXCEPT !.saved = {}, !.ok = TRUE], d)
    BY <1>5 DEF Restore, Fails
  <2> HIDE DEF d
  <2> QED BY <1>2, <2>2, <2>3, <2>4, <2>5
<1> QED BY <1>4, <1>5

LEMMA PatchHolds ==
  ASSUME CheckoutInv, TestsInv, NEW a \in Threads, NEW p \in Patches,
         Skip(a, p) \/ Apply(a, p) \/ PatchFails(a, p) \/ ApplyKilled(a, p)
  PROVE  TestsInv'
<1>1. /\ dir \in Dirs /\ upd[a].pc = "patch" /\ upd[a] \in Update /\ upd[a].saved = {}
      /\ UNCHANGED <<made, orphans, exposed>>
  BY DEF CheckoutInv, Types, Skip, Apply, PatchFails, ApplyKilled, Due, At, TestsInv,
         BackupsInUpdates, history
<1>2. Done(a, p) \in Update /\ Done(a, p).pc = "patch" /\ Done(a, p).saved = {}
  BY <1>1 DEF Done, Update
<1>3. ASSUME NEW how \in {"applied", "mangled"}, NEW d, d = [dir EXCEPT !.patch[p] = how]
      PROVE  d \in Dirs /\ d.tests = dir.tests /\ d.stop = dir.stop
  BY <1>1, <1>3 DEF Dirs, Dir
<1>4. \/ Goes(a, Done(a, p), dir)
      \/ Goes(a, Done(a, p), [dir EXCEPT !.patch[p] = "applied"])
      \/ Fails(a, dir)
      \/ Fails(a, [dir EXCEPT !.patch[p] = "mangled"])
  BY DEF Skip, Apply, PatchFails, ApplyKilled
<1> QED BY <1>1, <1>2, <1>3, <1>4, QuietHolds, FailsHolds

LEMMA RunHolds ==
  ASSUME CheckoutInv, TestsInv, NEW a \in Threads,
         Ready(a) \/ (a = Job /\ Canceled) \/ (a = Job /\ FinishRun)
  PROVE  TestsInv'
<1>1. /\ dir \in Dirs /\ upd[a].pc \in {"patch", "run"} /\ upd[a].saved = {}
      /\ UNCHANGED <<made, orphans, exposed>>
  BY DEF CheckoutInv, Types, Ready, Canceled, FinishRun, At, TestsInv, BackupsInUpdates, history
<1>2. To(a, "run") \in Update /\ To(a, "run").pc = "run" /\ To(a, "run").saved = {}
  BY <1>1, Moves
<1>3. Fails(a, dir) \/ Goes(a, To(a, "run"), dir)
  BY DEF Ready, Canceled, FinishRun, Fails
<1> QED BY <1>1, <1>2, <1>3, QuietHolds, FailsHolds

LEMMA GenerateHolds ==
  ASSUME CheckoutInv, TestsInv, NEW t \in Tests, Generate(t)
  PROVE  TestsInv'
<1>1. /\ dir \in Dirs /\ Job \in Threads /\ upd[Job].pc = "run" /\ upd[Job].saved = {}
      /\ made' = made \cup {t} /\ UNCHANGED orphans /\ Exposes(exposed \ {t})
  BY DEF CheckoutInv, Types, Generate, At, Threads, TestsInv, BackupsInUpdates
<1>2. PICK how \in {"untracked", "staged"} : Goes(Job, upd[Job], [dir EXCEPT !.tests[t] = how])
  BY DEF Generate
<1> DEFINE d == [dir EXCEPT !.tests[t] = how]
<1>3. /\ d.stop = dir.stop /\ d.tests = [dir.tests EXCEPT ![t] = how]
      /\ dir.tests \in [Tests -> {"none", "untracked", "staged"}]
  BY <1>1 DEF Dirs, Dir
<1>4. Goes(Job, upd[Job], d)
  BY <1>2
<1> HIDE DEF d
<1>5. /\ dir' = d
      /\ \A x \in Threads : upd'[x].saved = upd[x].saved /\ upd'[x].pc = upd[x].pc
  <2>1. /\ dir' = d
        /\ upd' = [x \in Threads |-> IF x = Job THEN upd[Job]
                                     ELSE IF d # dir THEN Disturbed(x) ELSE upd[x]]
    BY <1>4 DEF Goes
  <2> QED BY <2>1, DisturbedKeeps DEF TestsInv
<1>6. Present(d) = Present(dir) \cup {t}
  BY <1>3 DEF Present
<1>7. BackupsInUpdates' /\ OneStop'
  BY <1>3, <1>5 DEF TestsInv, BackupsInUpdates, OneStop
<1>8. RiskIsKnown'
  <2>1. exposed' = (exposed \ {t}) \cup
          {u \in Staged(dir') : \E x \in Threads : /\ upd'[x].pc \in {"update", "abort"}
                                                   /\ u \notin upd'[x].saved}
    BY <1>1 DEF Exposes
  <2>2. \A x \in Threads : upd'[x].pc \in {"update", "abort"} =>
          \A u \in Staged(dir') : u \in upd'[x].saved \/ u \in exposed'
    BY <2>1
  <2>3. Staged(dir)' = Staged(dir')
    BY DEF Staged
  <2> QED BY <2>2, <2>3 DEF RiskIsKnown
<1>9. TestsKept'
  <2> SUFFICES ASSUME NEW u \in made', u \notin exposed'
               PROVE  \/ u \in Present(d) \cup orphans
                      \/ \E x \in Threads : u \in upd'[x].saved
                      \/ \E s \in d.stop : u \in s.staged
    <3>1. Present(dir)' = Present(d)
      BY <1>5 DEF Present
    <3> QED BY <1>1, <1>5, <3>1 DEF TestsKept
  <2>1. CASE u = t
    BY <1>6, <2>1
  <2>2. CASE u # t
    <3>1. u \in made /\ u \notin exposed
      BY <1>1, <2>2 DEF Exposes
    <3>2. \/ u \in Present(dir) \cup orphans
          \/ \E x \in Threads : u \in upd[x].saved
          \/ \E s \in dir.stop : u \in s.staged
      BY <3>1 DEF TestsInv, TestsKept
    <3> QED BY <1>3, <1>5, <1>6, <3>2
  <2> QED BY <2>1, <2>2
<1> QED BY <1>7, <1>8, <1>9 DEF TestsInv

LEMMA CommitHolds == ASSUME CheckoutInv, TestsInv, Commit PROVE TestsInv'
<1>1. /\ dir \in Dirs /\ UNCHANGED <<made, orphans, exposed>>
      /\ dir' = [dir EXCEPT !.local = TRUE] /\ upd' = [x \in Threads |-> Disturbed(x)]
  BY DEF CheckoutInv, Types, Commit
<1>2. dir'.tests = dir.tests /\ dir'.stop = dir.stop
  BY <1>1 DEF Dirs, Dir
<1>3. \A x \in Threads : upd'[x].saved = upd[x].saved /\ upd'[x].pc = upd[x].pc
  BY <1>1, DisturbedKeeps DEF TestsInv
<1> QED BY <1>1, <1>2, <1>3 DEF TestsInv, BackupsInUpdates, RiskIsKnown, OneStop, TestsKept,
                               Staged, Present

LEMMA CrashHolds == ASSUME CheckoutInv, TestsInv, Crash PROVE TestsInv'
<1>1. /\ dir \in Dirs /\ remote \in Commits /\ UNCHANGED <<made, exposed>>
      /\ dir' = dir \/ dir' = Cloned(dir, remote)
      /\ upd' = [a \in Threads |-> Idle]
      /\ orphans' = orphans \cup UNION {upd[a].saved : a \in Threads}
  BY DEF CheckoutInv, Types, Crash
<1>2. dir'.tests = dir.tests /\ dir'.stop = dir.stop
  BY <1>1, CloneDir
<1>3. \A x \in Threads : upd'[x].saved = {} /\ upd'[x].pc = "idle"
  BY <1>1 DEF Idle
<1>4. \A x \in Threads : upd[x].saved \subseteq orphans'
  BY <1>1
<1> QED BY <1>1, <1>2, <1>3, <1>4 DEF TestsInv, BackupsInUpdates, RiskIsKnown, OneStop, TestsKept,
                                     Staged, Present

LEMMA TestsStay == CheckoutInv /\ TestsInv /\ [Next]_vars => TestsInv'
<1> SUFFICES ASSUME CheckoutInv, TestsInv, [Next]_vars PROVE TestsInv'
  OBVIOUS
<1>1. Job \in Threads
  BY DEF Threads
<1>2. ASSUME NEW a \in Threads, Begin(a) \/ Updating(a) \/ Failing(a) PROVE TestsInv'
  BY <1>2, BeginHolds, FetchHolds, CloneHolds, CompareHolds, HardResetHolds, RebaseHolds,
     RestoreHolds, PatchHolds, RunHolds DEF Updating, Failing
<1>3. CASE FinishRun
  BY <1>1, <1>3, RunHolds
<1>4. CASE Push \/ UNCHANGED vars
  BY <1>4 DEF Push, vars, history, TestsInv, BackupsInUpdates, RiskIsKnown, OneStop, TestsKept,
              Staged, Present
<1> QED BY <1>2, <1>3, <1>4, GenerateHolds, CommitHolds, CrashHolds DEF Next

\* The tests GENUT has written are never lost to an update (_backup_preserved,
\* _restore_preserved), except in a window that two threads share or by a failed copy.
THEOREM TestsAreKept == Spec => []TestsKept
<1>1. TestsInv => TestsKept
  BY DEF TestsInv
<1> QED BY <1>1, CheckoutStarts, CheckoutKeeps, TestsStart, TestsStay, PTL DEF Spec

-----------------------------------------------------------------------------
(* The local commits of users *)

\* A clone is made by one thread, in a directory with an incomplete `.git`.
OneClone ==
  \A a, b \in Threads : At(a, "clone") => dir.state = "partial" /\ (At(b, "clone") => a = b)

\* Local commits are on top of HEAD, or put aside by a rebase that a thread is going to undo.
CommitsAreThere ==
  /\ owed => dir.state = "whole"
  /\ owed /\ ~cut =>
       dir.local \/ (dir.stop # {} /\ ~dir.torn /\ \E a \in Threads : At(a, "abort"))

\* The third inductive invariant, relative to the first.
CommitsInv == OneClone /\ CommitsAreThere

\* What of a directory says where local commits are.
Kept(d) == d.state = dir.state /\ d.local = dir.local /\ d.stop = dir.stop /\ d.torn = dir.torn

LEMMA CommitsStart == Init => CommitsInv
BY DEF Init, Idle, At, CommitsInv, OneClone, CommitsAreThere

LEMMA DisturbedStays ==
  ASSUME CheckoutInv, NEW x \in Threads PROVE Disturbed(x).pc = upd[x].pc
<1>1. CASE upd[x].pc = "idle"
  BY <1>1 DEF Disturbed, Idle
<1>2. CASE upd[x].pc # "idle"
  <2>1. upd[x] \in Update
    BY DEF CheckoutInv, Types
  <2>2. ASSUME NEW q, q = [upd[x] EXCEPT !.disturbed = (x = Job), !.seen = 0]
        PROVE  q.pc = upd[x].pc
    BY <2>1, <2>2 DEF Update
  <2> QED BY <1>2, <2>2 DEF Disturbed
<1> QED BY <1>1, <1>2

\* A thread that starts no clone.
LEMMA ThreadCommits ==
  ASSUME CheckoutInv, CommitsInv, NEW a \in Threads, NEW r, NEW d, Goes(a, r, d), r.pc # "clone",
         At(a, "clone") \/ d.state = dir.state,
         owed' => d.state = "whole",
         owed' /\ ~cut' => \/ d.local
                           \/ /\ d.stop # {} /\ ~d.torn
                              /\ r.pc = "abort" \/ \E x \in Threads \ {a} : At(x, "abort")
  PROVE  CommitsInv'
<1>1. dir' = d /\ upd'[a].pc = r.pc /\ \A x \in Threads \ {a} : upd'[x].pc = upd[x].pc
  <2>1. /\ dir' = d
        /\ upd' = [x \in Threads |-> IF x = a THEN r ELSE IF d # dir THEN Disturbed(x) ELSE upd[x]]
    BY DEF Goes
  <2> QED BY <2>1, DisturbedStays
<1>2. OneClone'
  BY <1>1 DEF CommitsInv, OneClone, At
<1>3. CommitsAreThere'
  BY <1>1 DEF CommitsAreThere, At
<1> QED BY <1>2, <1>3 DEF CommitsInv

LEMMA QuietCommits ==
  ASSUME CheckoutInv, CommitsInv, NEW a \in Threads, NEW r, NEW d, Goes(a, r, d), r.pc # "clone",
         upd[a].pc # "abort", Kept(d), owed' => owed, UNCHANGED cut
  PROVE  CommitsInv'
<1>1. /\ owed' => d.state = "whole"
      /\ owed' /\ ~cut' => \/ d.local
                           \/ d.stop # {} /\ ~d.torn /\ \E x \in Threads \ {a} : At(x, "abort")
  BY DEF CommitsInv, CommitsAreThere, Kept, At
<1> QED BY <1>1, ThreadCommits DEF Kept

\* Steps that change neither HEAD nor what is put aside.
LEMMA PlainCommits ==
  ASSUME CheckoutInv, CommitsInv, NEW a \in Threads,
         \/ Begin(a) \/ Fetch(a) \/ FetchFails(a) \/ Compare(a) \/ Restore(a) \/ RestoreFails(a)
         \/ Ready(a) \/ (a = Job /\ (Canceled \/ FinishRun \/ \E t \in Tests : Generate(t)))
         \/ \E p \in Patches : Skip(a, p) \/ Apply(a, p) \/ PatchFails(a, p) \/ ApplyKilled(a, p)
  PROVE  CommitsInv'
<1>1. /\ dir \in Dir /\ upd[a] \in Update /\ remote \in 0..LastCommit
      /\ Idle \in Update /\ Idle.pc = "idle"
  BY IdleIsSound DEF CheckoutInv, Types, Dirs, Commits, Idle
<1>2. Kept(dir) /\ Kept([dir EXCEPT !.fetched = remote])
  BY <1>1 DEF Dir, Kept
<1>3. \A S : Kept(Overlaid(dir, S))
  BY <1>1 DEF Dir, Kept, Overlaid
<1>4. \A p \in Patches, how \in {"applied", "mangled"} : Kept([dir EXCEPT !.patch[p] = how])
  BY <1>1 DEF Dir, Kept
<1>5. \A t \in Tests, how \in {"untracked", "staged"} : Kept([dir EXCEPT !.tests[t] = how])
  BY <1>1 DEF Dir, Kept
<1>6. ASSUME NEW r, NEW d, Goes(a, r, d), r.pc # "clone", upd[a].pc # "abort", Kept(d),
             UNCHANGED <<owed, cut>>
      PROVE  CommitsInv'
  BY <1>6, QuietCommits
<1>7. CASE Begin(a)
  <2>1. PICK m \in Modes[a], w \in Lists[a] :
          Goes(a, [Idle EXCEPT !.pc = "enter", !.mode = m, !.want = w, !.todo = w], dir)
    BY <1>7 DEF Begin
  <2>2. ASSUME NEW q, q = [Idle EXCEPT !.pc = "enter", !.mode = m, !.want = w, !.todo = w]
        PROVE  q.pc = "enter"
    BY <1>1, <2>2 DEF Update
  <2>3. upd[a].pc = "idle" /\ UNCHANGED <<owed, cut>>
    BY <1>7 DEF Begin, At, history
  <2> QED BY <1>2, <1>6, <2>1, <2>2, <2>3
<1>8. CASE Fetch(a) \/ FetchFails(a)
  <2>1. upd[a].pc = "enter" /\ UNCHANGED <<owed, cut>>
    BY <1>8 DEF Fetch, FetchFails, At, history
  <2>2. To(a, "compare") \in Update /\ To(a, "compare").pc = "compare" /\ To(a, "patch").pc = "patch"
    BY Moves
  <2>3. ASSUME NEW q, q = [To(a, "compare") EXCEPT !.seen = remote] PROVE q.pc = "compare"
    BY <2>2, <2>3 DEF Update
  <2>4. \/ Goes(a, [To(a, "compare") EXCEPT !.seen = remote], [dir EXCEPT !.fetched = remote])
        \/ Goes(a, To(a, "compare"), dir) \/ Goes(a, Idle, dir) \/ Goes(a, To(a, "patch"), dir)
    BY <1>8 DEF Fetch, FetchFails, Fails
  <2> QED BY <1>1, <1>2, <1>6, <2>1, <2>2, <2>3, <2>4
<1>9. CASE Compare(a)
  <2>1. upd[a].pc = "compare" /\ UNCHANGED <<owed, cut>>
    BY <1>9 DEF Compare, At
  <2>2. /\ To(a, "update") \in Update /\ To(a, "update").pc = "update" /\ To(a, "patch").pc = "patch"
    BY Moves
  <2>3. ASSUME NEW S, NEW q, q = [To(a, "update") EXCEPT !.saved = S] PROVE q.pc = "update"
    BY <2>2, <2>3 DEF Update
  <2>4. \/ Goes(a, Idle, dir) \/ Goes(a, To(a, "update"), dir) \/ Goes(a, To(a, "patch"), dir)
        \/ \E S \in Backups(a) : Goes(a, [To(a, "update") EXCEPT !.saved = S], dir)
    BY <1>9 DEF Compare, Fails
  <2> QED BY <1>1, <1>2, <1>6, <2>1, <2>2, <2>3, <2>4
<1>10. CASE Restore(a) \/ RestoreFails(a)
  <2>1. upd[a].pc = "restore" /\ UNCHANGED <<owed, cut>>
    BY <1>10 DEF Restore, RestoreFails, At, history
  <2>2. To(a, "patch") \in Update /\ To(a, "patch").pc = "patch"
    BY Moves
  <2>3. ASSUME NEW q, q = [To(a, "patch") EXCEPT !.saved = {}, !.ok = TRUE] PROVE q.pc = "patch"
    BY <2>2, <2>3 DEF Update
  <2>4. \E S : \/ Goes(a, Idle, Overlaid(dir, S))
               \/ Goes(a, [To(a, "patch") EXCEPT !.saved = {}, !.ok = TRUE], Overlaid(dir, S))
    BY <1>10 DEF Restore, RestoreFails, Fails
  <2> QED BY <1>1, <1>3, <1>6, <2>1, <2>2, <2>3, <2>4
<1>11. CASE Ready(a) \/ (a = Job /\ (Canceled \/ FinishRun))
  <2>1. upd[a].pc \in {"patch", "run"} /\ UNCHANGED <<owed, cut>>
    BY <1>11 DEF Ready, Canceled, FinishRun, At, history
  <2>2. To(a, "run").pc = "run"
    BY Moves
  <2>3. Goes(a, To(a, "run"), dir) \/ Goes(a, Idle, dir)
    BY <1>11 DEF Ready, Canceled, FinishRun, Fails
  <2> QED BY <1>1, <1>2, <1>6, <2>1, <2>2, <2>3
<1>12. CASE a = Job /\ \E t \in Tests : Generate(t)
  <2>1. PICK t \in Tests : Generate(t)
    BY <1>12
  <2>2. upd[a].pc = "run" /\ UNCHANGED <<owed, cut>>
    BY <1>12, <2>1 DEF Generate, At
  <2>3. \E how \in {"untracked", "staged"} : Goes(a, upd[a], [dir EXCEPT !.tests[t] = how])
    BY <1>12, <2>1 DEF Generate
  <2> QED BY <1>5, <1>6, <2>2, <2>3
<1>13. CASE \E p \in Patches : Skip(a, p) \/ Apply(a, p) \/ PatchFails(a, p) \/ ApplyKilled(a, p)
  <2>1. PICK p \in Patches : Skip(a, p) \/ Apply(a, p) \/ PatchFails(a, p) \/ ApplyKilled(a, p)
    BY <1>13
  <2>2. upd[a].pc = "patch" /\ UNCHANGED <<owed, cut>>
    BY <2>1 DEF Skip, Apply, PatchFails, ApplyKilled, Due, At, history
  <2>3. Done(a, p).pc = "patch"
    BY <1>1, <2>2 DEF Done, Update
  <2>4. \/ Goes(a, Done(a, p), dir) \/ Goes(a, Idle, dir)
        \/ Goes(a, Done(a, p), [dir EXCEPT !.patch[p] = "applied"])
        \/ Goes(a, Idle, [dir EXCEPT !.patch[p] = "mangled"])
    BY <2>1 DEF Skip, Apply, PatchFails, ApplyKilled, Fails
  <2> QED BY <1>1, <1>2, <1>4, <1>6, <2>2, <2>3, <2>4
<1> QED BY <1>7, <1>8, <1>9, <1>10, <1>11, <1>12, <1>13

\* While the directory is cloned nobody has committed in it.
LEMMA CloneCommits ==
  ASSUME CheckoutInv, CommitsInv, NEW a \in Threads, StartClone(a) \/ EndClone(a) \/ CloneFails(a)
  PROVE  CommitsInv'
<1>1. /\ dir \in Dir /\ UNCHANGED <<owed, cut>>
  BY DEF CheckoutInv, Types, Dirs, StartClone, EndClone, CloneFails, history
<1>2. CASE StartClone(a)
  <2>1. dir.state = "none" /\ Goes(a, To(a, "clone"), [dir EXCEPT !.state = "partial"])
    BY <1>2 DEF StartClone
  <2>2. [dir EXCEPT !.state = "partial"].state = "partial"
    BY <1>1 DEF Dir
  <2>3. dir'.state = "partial" /\ \A x \in Threads \ {a} : upd'[x].pc = upd[x].pc
    BY <2>1, <2>2, DisturbedStays DEF Goes
  <2>4. ~owed /\ \A x \in Threads : upd[x].pc # "clone"
    BY <2>1 DEF CommitsInv, OneClone, CommitsAreThere, At
  <2>5. OneClone'
    BY <2>3, <2>4 DEF OneClone, At
  <2>6. CommitsAreThere'
    BY <1>1, <2>4 DEF CommitsAreThere
  <2> QED BY <2>5, <2>6 DEF CommitsInv
<1>3. CASE EndClone(a) \/ CloneFails(a)
  <2>1. At(a, "clone") /\ ~owed
    BY <1>3 DEF EndClone, CloneFails, CommitsInv, OneClone, CommitsAreThere
  <2>2. To(a, "patch") \in Update /\ To(a, "patch").pc = "patch" /\ Idle.pc = "idle"
    BY Moves DEF Idle
  <2>3. ASSUME NEW q, q = [To(a, "patch") EXCEPT !.seen = remote] PROVE q.pc = "patch"
    BY <2>2, <2>3 DEF Update
  <2>4. \E r, d : Goes(a, r, d) /\ r.pc # "clone"
    <3>1. CASE EndClone(a)
      <4>1. Goes(a, [To(a, "patch") EXCEPT !.seen = remote], Cloned(dir, remote))
        BY <3>1 DEF EndClone
      <4> QED BY <2>3, <4>1
    <3>2. CASE CloneFails(a)
      BY <2>2, <3>2 DEF CloneFails, Fails
    <3> QED BY <1>3, <3>1, <3>2
  <2> QED BY <1>1, <2>1, <2>4, ThreadCommits
<1> QED BY <1>2, <1>3

\* A reset ends what is owed; one that is killed while a rebase is stopped cuts it short.
LEMMA ResetCommits ==
  ASSUME CheckoutInv, CommitsInv, NEW a \in Threads, HardReset(a) \/ HardResetKilled(a)
  PROVE  CommitsInv'
<1>1. dir \in Dirs /\ dir \in Dir /\ upd[a].pc = "update"
  BY DEF CheckoutInv, Types, Dirs, HardReset, HardResetKilled, Updates, At
<1>2. \A ok \in BOOLEAN : Restoring(a, ok).pc = "restore"
  BY RestoringMoves
<1>3. CASE HardReset(a)
  <2>1. CASE Resets(dir)
    <3>1. Goes(a, Restoring(a, TRUE), Reset(dir, dir.fetched)) /\ ~owed'
      <4>1. Resets(dir) = TRUE
        BY <2>1 DEF Resets
      <4> QED BY <1>3, <4>1 DEF HardReset
    <3>2. Reset(dir, dir.fetched).state = dir.state
      BY <1>1 DEF Reset, Dir
    <3> QED BY <1>2, <3>1, <3>2, ThreadCommits
  <2>2. CASE ~Resets(dir)
    <3>1. Goes(a, Restoring(a, FALSE), dir) /\ (owed' => owed) /\ UNCHANGED cut
      <4>1. Resets(dir) = FALSE
        BY <2>2 DEF Resets
      <4> QED BY <1>3, <4>1 DEF HardReset
    <3> QED BY <1>1, <1>2, <3>1, QuietCommits DEF Kept
  <2> QED BY <2>1, <2>2
<1>4. CASE HardResetKilled(a)
  <2>1. PICK clean \in SUBSET Patches, removed \in SUBSET Staged(dir) :
          Goes(a, Restoring(a, FALSE),
            [dir EXCEPT !.torn = TRUE,
               !.patch = [p \in Patches |-> IF p \in clean THEN "absent" ELSE dir.patch[p]],
               !.tests = [t \in Tests |-> IF t \in removed THEN "none" ELSE dir.tests[t]]])
    BY <1>4 DEF HardResetKilled
  <2>2. ASSUME NEW f, NEW g, NEW d, d = [dir EXCEPT !.torn = TRUE, !.patch = f, !.tests = g]
        PROVE  d.state = dir.state /\ d.local = dir.local
    BY <1>1, <2>2 DEF Dir
  <2>3. PICK d : Goes(a, Restoring(a, FALSE), d) /\ d.state = dir.state /\ d.local = dir.local
    BY <2>1, <2>2
  <2>4. UNCHANGED owed /\ cut' = (cut \/ dir.stop # {})
    BY <1>4 DEF HardResetKilled
  <2>5. /\ owed' => d.state = "whole"
        /\ owed' /\ ~cut' => d.local
    BY <2>3, <2>4 DEF CommitsInv, CommitsAreThere
  <2> QED BY <1>2, <2>3, <2>5, ThreadCommits
<1> QED BY <1>3, <1>4

\* A rebase keeps the local commits or puts them aside, and then its thread undoes it.
LEMMA RebaseCommits ==
  ASSUME CheckoutInv, CommitsInv, NEW a \in Threads, Rebase(a) \/ RebaseKilled(a) \/ Abort(a)
  PROVE  CommitsInv'
<1>1. dir \in Dirs /\ dir \in Dir /\ UNCHANGED owed
  BY DEF CheckoutInv, Types, Dirs, Rebase, RebaseKilled, Abort
<1>2. To(a, "abort").pc = "abort" /\ \A ok \in BOOLEAN : Restoring(a, ok).pc = "restore"
  BY Moves, RestoringMoves
<1>3. CASE Rebase(a)
  <2>1. upd[a].pc = "update" /\ UNCHANGED cut
    BY <1>3 DEF Rebase, Updates, At
  <2>2. CASE Goes(a, To(a, "abort"), dir)
    BY <1>1, <1>2, <2>1, <2>2, QuietCommits DEF Kept
  <2>3. CASE ~Refuses(dir) /\ Goes(a, To(a, "abort"), Stopped(dir, dir.fetched))
    <3> DEFINE d == Stopped(dir, dir.fetched)
    <3>1. dir.state = "whole" /\ ~dir.torn /\ dir.fetched \in Commits
      BY <1>1, <2>3 DEF Refuses, Dirs
    <3>2. d.state = dir.state /\ d.torn = dir.torn /\ d.stop # {}
      BY <1>1 DEF Stopped, Reset, Dir
    <3>3. Goes(a, To(a, "abort"), d)
      BY <2>3
    <3> HIDE DEF d
    <3> QED BY <1>2, <3>1, <3>2, <3>3, ThreadCommits
  <2>4. CASE Goes(a, Restoring(a, TRUE), Rebased(dir, dir.fetched))
    <3> DEFINE d == Rebased(dir, dir.fetched)
    <3>1. Kept(d)
      BY <1>1 DEF Rebased, Dir, Kept
    <3>2. Goes(a, Restoring(a, TRUE), d)
      BY <2>4
    <3> HIDE DEF d
    <3> QED BY <1>1, <1>2, <2>1, <3>1, <3>2, QuietCommits
  <2> QED BY <1>3, <2>2, <2>3, <2>4 DEF Rebase
<1>4. CASE RebaseKilled(a)
  <2>1. /\ ~Refuses(dir) /\ cut'
        /\ Goes(a, To(a, "abort"), [Stopped(dir, dir.fetched) EXCEPT !.torn = TRUE])
    BY <1>4 DEF RebaseKilled
  <2>2. dir.state = "whole"
    BY <2>1 DEF Refuses
  <2>3. [Stopped(dir, dir.fetched) EXCEPT !.torn = TRUE].state = dir.state
    BY <1>1 DEF Stopped, Reset, Dir
  <2> QED BY <1>2, <2>1, <2>2, <2>3, ThreadCommits
<1>5. CASE Abort(a)
  <2>1. UNCHANGED cut
    BY <1>5 DEF Abort
  <2>2. CASE (dir.stop = {} \/ dir.torn) /\ Goes(a, Restoring(a, FALSE), dir)
    <3>1. /\ owed' => dir.state = "whole"
          /\ owed' /\ ~cut' => dir.local
      BY <1>1, <2>1, <2>2 DEF CommitsInv, CommitsAreThere
    <3> QED BY <1>2, <2>2, <3>1, ThreadCommits
  <2>3. ASSUME NEW r \in dir.stop, Goes(a, Restoring(a, FALSE), Aborted(dir, r))
        PROVE  CommitsInv'
    <3> DEFINE d == Aborted(dir, r)
    <3>1. d.state = dir.state /\ d.local
      BY <1>1 DEF Aborted, Dir
    <3>2. Goes(a, Restoring(a, FALSE), d)
      BY <2>3
    <3> HIDE DEF d
    <3>3. owed' => d.state = "whole"
      BY <1>1, <3>1 DEF CommitsInv, CommitsAreThere
    <3> QED BY <1>2, <3>1, <3>2, <3>3, ThreadCommits
  <2> QED BY <1>5, <2>2, <2>3 DEF Abort
<1> QED BY <1>3, <1>4, <1>5

LEMMA OthersCommit == ASSUME CheckoutInv, CommitsInv, Push \/ Commit \/ Crash PROVE CommitsInv'
<1>1. dir \in Dir /\ remote \in Commits
  BY DEF CheckoutInv, Types, Dirs
<1>2. CASE Push
  BY <1>2 DEF Push, history, CommitsInv, OneClone, CommitsAreThere, At
<1>3. CASE Commit
  <2>1. /\ dir' = [dir EXCEPT !.local = TRUE] /\ dir.state = "whole"
        /\ \A x \in Threads : upd'[x].pc = upd[x].pc
    BY <1>3, DisturbedStays DEF Commit
  <2>2. dir'.local /\ dir'.state = dir.state
    BY <1>1, <2>1 DEF Dir
  <2> QED BY <2>1, <2>2 DEF CommitsInv, OneClone, CommitsAreThere, At
<1>4. CASE Crash
  <2>1. /\ \A x \in Threads : upd'[x].pc = "idle"
        /\ UNCHANGED owed /\ cut' = (cut \/ dir.stop # {})
        /\ dir' = dir \/ ((\E a \in Threads : At(a, "clone")) /\ dir' = Cloned(dir, remote))
    BY <1>4 DEF Crash, Idle
  <2>2. (\E a \in Threads : At(a, "clone")) => ~owed
    BY DEF CommitsInv, OneClone, CommitsAreThere
  <2> QED BY <2>1, <2>2 DEF CommitsInv, OneClone, CommitsAreThere, At
<1> QED BY <1>2, <1>3, <1>4

LEMMA CommitsStay == CheckoutInv /\ CommitsInv /\ [Next]_vars => CommitsInv'
<1> SUFFICES ASSUME CheckoutInv, CommitsInv, [Next]_vars PROVE CommitsInv'
  OBVIOUS
<1>1. Job \in Threads
  BY DEF Threads
<1>2. ASSUME NEW a \in Threads, Begin(a) \/ Updating(a) \/ Failing(a) PROVE CommitsInv'
  BY <1>2, PlainCommits, CloneCommits, ResetCommits, RebaseCommits DEF Updating, Failing
<1>3. CASE UNCHANGED vars
  BY <1>3 DEF vars, history, CommitsInv, OneClone, CommitsAreThere, At
<1> QED BY <1>1, <1>2, <1>3, PlainCommits, OthersCommit DEF Next

\* Local commits are there when GENUT runs, unless a reset has run or a rebase was cut short
\* (the rebase branch of ensure_checkout, with its abort).
THEOREM CommitsAreKept == Spec => []LocalCommitsKept
<1>1. CommitsInv => LocalCommitsKept
  BY DEF CommitsInv, CommitsAreThere, LocalCommitsKept, At, Threads
<1> QED BY <1>1, CheckoutStarts, CheckoutKeeps, CommitsStart, CommitsStay, PTL DEF Spec

=============================================================================
