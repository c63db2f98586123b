# GENUT_service: specification and verification

GENUT_service runs GENUT, a generator of unit tests, for products: a web server takes
requests for functions of a product, queues them as jobs, runs each in the checkout of the
product with one of a set of GENUT instances ("workers"), and writes the generated tests
back. A scheduler inside the server process claims jobs, runs them on threads and cleans up
after whatever went wrong. This directory holds TLA+ specifications of that machinery, TLC
configurations that check them and TLAPS proofs about them. Paths below are relative to
`src/genut_service/`.

Run from this directory:

    tlc -workers 2 -config SharedKey.cfg MCJobScheduler      # one run
    tlc -workers 2 -config AutoCycle.cfg MCAutoCycle
    tlc -workers 2 -config TestStatus.cfg MCTestStatus
    tlc -workers 2 -config Checkout.cfg MCCheckout           # likewise ProcessRun,
                                                             # FunctionScan, Administration
    tlapm JobSchedulerProofs.tla                             # proofs

## 1. Inventory

### Job scheduler: `scheduler/engine.py`, `lock.py`, `janitor.py`, `loop.py`

State: the tables `jobs`, `product_locks` (one row per locked product, primary key
`product_id`) and `genut_instances` (status and current job of each worker); the position
of `Scheduler._loop` and its tick counter.
Operations: `claim_jobs` (choose queued GENUT jobs, insert their locks, assign workers),
`finish_job`, `release_stale_locks` (the sweep), `reap_stuck_jobs` (the watchdog),
`mark_interrupted_jobs` and the sweep again at start.
Interaction: the loop runs every database step on the default thread pool and starts each
claimed job as a task on that pool without waiting for it; request handlers and job threads
change the same tables.
Hard: a claim is several statements; a rollback inside `try_acquire_lock` undoes earlier
assignments of the same claim; job threads act on rows their session cached at their start
(`expire_on_commit=False`); the watchdog ends jobs whose thread may be alive; a crash leaves
running rows, locks and busy workers.
Correct when: at most one job runs per (project, name); a running GENUT job owns the lock of
its product and its worker serves it; results are final; jobs of a key start in order;
everything is freed eventually.

### Job execution: `runner/worker.py`

State: one thread per dispatched job, its session and what that remembers.
Operations: load the rows, first event, run, unregister, finish, two fallbacks if the
finishing transaction fails.
Hard: a commit outside every `try`; the cancel flag is read at a few points only.
Correct when: every started job is ended once, with the right result.

### Auto cycle: `scheduler/auto_tick.py`, `services/auto_run_service.py`, `auto_product_service.py`

State: preparation jobs (`auto_diff`, `auto_scan`) in `jobs`; the auto settings of a
product, among them the baseline commit.
Operations: queue a cycle when one is due or on demand, claim preparation jobs, run them on
threads (`process_prep_job`), queue a GENUT job for each function that needs one.
Hard: test and insert of a cycle are two statements; preparation jobs and GENUT jobs exclude
each other through different means (status and lock); `_finish_prep` has no terminal guard.
Correct when: one cycle per product is pending, a scan follows its diff, no function of the
range is lost or queued twice, the baseline only advances past what was queued.

### Process registry: `runner/process_registry.py`

State: `_procs` (job id to processes), `_canceled` (job ids), under one mutex.
Operations: `register`, `unregister`, `is_canceled`, `has_process`, `cancel`.
Hard: callers act on an answer after the mutex is released; ids of deleted jobs are given
out again by SQLite.
Correct when: a flag reaches the job it was meant for and no other.

### Job service and API: `services/job_service.py`, `api/jobs.py`

Operations: submit, rerun, cancel, cancel all jobs of a product, delete one job or all
finished ones. State: the `jobs` table, and per request what it has read.
Hard: `cancel_job` reads a status and flags the job later; `cancel_all_jobs` writes the
queued jobs, then reads the running ones; the foreign key of `product_locks` refuses some
deletions.

### Workers and products: `services/genut_service.py`, `product_service.py`

State: the tables `products` and `genut_instances`, with foreign keys from `jobs` and
`product_locks`.
Operations: create, change, delete.
Hard: a deletion counts active jobs in one statement and deletes rows in others, and a claim,
a submit or the end of a job may come in between; ids of deleted rows are given out again
while sessions remember the old ones; renaming a product changes its key while a job runs.
Correct when: no running job loses its row, its lock or its worker to a request that took it
for inactive, and whatever was deleted, jobs end and leave nothing locked.

### Checkouts: `runner/git_ops.py`, `workspace.py`, `services/code_pull_service.py`, `gerrit_patch_service.py`

State: the working tree of a product (HEAD, local commits, patches, generated tests) and what
is set aside from it: a backup of the output folder, the autostash of a rebase.
Operations: clone, fetch and reset or rebase, back up and restore the output folder, apply
patches, the same on request.
Hard: git commands are killed by timeouts and cancels and leave a lock, a torn tree or a
stopped rebase; HEAD equal to the remote ends an update whatever else is in the tree; a
request to download code tests that no job runs and then overlaps one.
Correct when: generated tests survive an update, GENUT runs on code that has the patches,
success means new code, local commits survive a rebase, and updates recover by themselves
where they can.

### GENUT runner and subprocesses: `runner/genut_runner.py`, `executors.py`, `subprocess_util.py`, `services/command_run_service.py`

State: processes and their groups, output pipes, reader threads, timeouts, the job's cancel
flag and its entry in the registry.
Operations: the stages of a run (update, virtual environment, patches, GENUT), `run`,
`run_streaming`, `kill_tree`.
Hard: a cancel between the start of a process and its registration, or between two
processes; a grandchild that inherits the pipe and outlives the command; a reader thread
that outlives its call.
Correct when: every call returns, nothing of a killed group is left, a cancel always kills,
and after the return of its call a reader begins at most the one callback it was about to
make.

### C parser: `services/c_function_parser.py`, `function_extractor.py`

State: a text, its mask (comments, literals and directives blanked out), a position and the
functions found. Operations: mask, scan.
Hard: positions move by one or two, backwards after a candidate is given up, over blocks of
which some are entered; each off-by-one shifts all that follows.
Correct when: the mask hides what C hides, but for the constructs it openly reads otherwise
(section 3); functions found are real and do not overlap; the scan ends.

### Test status: `services/test_status_service.py`, `test_status_snapshot_service.py`, `api/test_status.py`, `status_main.py`

State: the table `test_status_snapshots`, one row per (project, name); in each of the two
server processes a summary cache per project; the test files in the checkouts.
Operations: refresh all snapshots (a task of the scheduler, minutes long, without a
transaction while it scans), answer a summary or the details of a name, delete one test, all
failed tests of a group or all tests of a target file, and invalidate after a deletion.
Interaction: the status server has the reading requests only and shares the database; jobs
write into the checkouts; edits of products change the groups.
Hard: a refresh publishes what it read minutes ago; a summary fills the cache after a
deletion cleared it; row and cache are invalidated one after the other; a group has many
checkouts, of which one may be busy, absent or broken; a reused row deleted under the
refresher aborts the refresh.
Correct when: a deleted test stays hidden, a refused deletion deletes nothing, and what is
shown catches up.

### Terminal: `services/terminal_service.py`, `api/terminal.py`

State: shell sessions with a slot of the thread pool each. Hard: sessions, jobs and ticks
share the pool.

### No state of their own

The choice between the extractor and the parser, compile database and path helpers (pure
functions); monitoring, file tree and files API (read only); Docker executor (a command
line); schemas, settings and wiring; migrations; the frontend, whose requests are the client
operations of the model.

## 2. What is modelled

| module | what it is | models |
|---|---|---|
| `JobScheduler` | detailed specification | the scheduler, job threads, auto cycle scheduling, process registry, job requests |
| `ExclusiveKeys` | abstract specification | what the scheduler promises about a (project, name), and about a worker |
| `KeyOwnership` | composition | the inductive invariant behind the exclusion and the order of starts, and the refinement of `ExclusiveKeys` |
| `Cleanup` | composition | the inductive invariant on what jobs leave behind, and the refinement of `ExclusiveKeys` by the workers |
| `Attendance` | composition | the inductive invariant on who works on a running job, and the behaviours in which no chosen job is canceled |
| `JobSchedulerProofs` | proofs | types, lock ownership, exclusion, order of starts, what ends leave behind, both refinements |
| `AttendanceProofs` | proofs | one thread and one worker for each running job, threads apart, results kept |
| `AutoCycle` | detailed specification | the diff and scan jobs of one product, its baseline, queue, checkout and tests |
| `AutoCycleProofs` | proofs | that an automatic cycle misses no change and queues nothing twice |
| `TestStatus` | detailed specification | snapshots, caches, deletions of tests |
| `TestStatusProofs` | proofs | that deleted tests stay hidden but for races, and that refusals delete nothing |
| `Checkout` | detailed specification | updates of one checkout by a job and by downloads, its patches and generated tests |
| `CheckoutProofs` | proofs | that runs have their patches, success is current, tests and local commits are kept |
| `ProcessRun` | detailed specification | the commands of one job: processes, pipes, readers, timeouts, cancels |
| `ProcessRunProofs` | proofs | that cancels kill, calls clean up and late callbacks are bounded |
| `Administration` | detailed specification | products and workers created, renamed and deleted under submits, claims and running jobs |
| `AdministrationProofs` | proofs | that the rows of running jobs stay and runners stay apart |
| `FunctionScan` | algorithm, step by step | the built-in parser of C functions, against reference definitions |
| `FunctionScanProofs` | proofs | that what is found are functions and does not overlap, and that the mask agrees with the lexical rules of C but for named exceptions |
| `MC...` | TLC | values of constants that are functions, sequences or sets of texts, and symmetry |

`JobScheduler` and `AutoCycle` meet where `JobScheduler` leaves open what a preparation job
queues (`AutoEnqueue`) and `AutoCycle` takes for granted that the jobs of a product exclude
each other (`Free`), which is what `ExclusiveKeys` promises and `Exclusion` proves, and that
queued jobs start, which `QueueMoves` says. `TestStatus` takes jobs as things that start,
write tests and end at any time, which every behaviour of the other two does.

The other modules open up what the first two leave closed. `ProcessRun` is what happens
between `StartJob` and `RunReturns` of `JobScheduler`: `JobEnds` there is the fairness
assumed of `RunReturns` here, and `CancelEnds` is why a killed process makes the runner
return. `Checkout` is the first part of a run, which `AutoCycle` takes as one step
(`StartGenut` updates and patches). `SuccessIsCurrent` and `RunsPatched` say what that step
may rely on; where a download overlaps a job they promise nothing, and that is an upset in
`AutoCycle`. In `Administration` the constants `KeyOf`, `Products` and `Workers` of
`JobScheduler` are variables; its claims and finishes are those of `JobScheduler`, shortened
to what deleted rows can disturb. `FunctionScan` yields what `AutoCycle` calls the functions
of a file.

### State of `JobScheduler`

| variables | in the code |
|---|---|
| `status`, `kind`, `product`, `genut` | columns of `jobs`; status `none` is an id no row has had, `deleted` one whose row is gone and whose id stays unused |
| `age` | `now - started_at` against the limit of the watchdog: within, over, over twice |
| `lock` | `product_locks`: the job that owns the row of a product |
| `enabled`, `workerStatus`, `current` | columns of `genut_instances` |
| `procs`, `canceled` | `process_registry._procs` (keys) and `_canceled` |
| `thread` | job threads: where each is, its outcome so far, and in `seen` the values its session remembers |
| `loop`, `tick` | where `Scheduler._loop` is, ticks since the last sweep |
| `plan`, `picks`, `toRun`, `stuck`, `reaping` | what the loop has read and will act on: the pairs of a claim, the preparation jobs of a claim, the tasks to start, the jobs the watchdog found, the one it is ending |
| `killJobs`, `scanProducts`, `cycleProducts` | requests between two of their steps: about to flag a job, about to look for running jobs, about to insert a cycle |
| `faults`, `crashes` | budgets of the model |

A step is one database transaction (SQLite has a single writer, so a committed group of
writes is atomic) or one critical section of the registry. Where the code reads and writes
later, the model has two steps. The correspondence:

| actions | code |
|---|---|
| `ClaimRead`, `ClaimLoad`, `ClaimWrite`, `ClaimAborts` | `claim_jobs`: choose, load the rows, write; a refused lock rolls the session back and the loop goes on |
| `Dispatch` | `asyncio.create_task(asyncio.to_thread(...))` for each claimed job |
| `EnqueueDueCycle` | `enqueue_due_cycles` |
| `ClaimPrepRead`, `ClaimPrepWrite`, `ClaimPrepLost` | `claim_prep_jobs`: choose, write whatever the rows say by then; the commit raises if one is gone, and the tick ends |
| `ReleaseStaleLocks`, `ReapScan`, `ReapKill`, `ReapFinish`, `ReapLost` | `_sweep_tick` and `reap_stuck_jobs` |
| `LoopError` | the `except` of the loop: a failed transaction ends the tick |
| `StartJob`, `Register`, `RunReturns`, `Unregister`, `Finish` | `process_job` |
| `StartPrep`, `AutoEnqueue` and the last four | `process_prep_job` |
| `StartJobFails`, `FinishFallback`, `FinishLost` | failed transactions of a thread |
| `SubmitRequest`, `RerunJob`, `CancelJob` then `Kill`, `CancelAllJobs` then `CancelAllScan`, `DeleteJob`, `DeleteFinishedJobs`, `RunAutoNow` then `RunAutoNowInsert`, `SetEnabled` | request handlers |
| `Age` | time passing for a running job |
| `Crash`, `Boot`, `BootFails` | death of the process, `Scheduler.start` |

`FinishJob(j, v, result)` takes the values `v` the calling session remembers. The session
factory sets `expire_on_commit=False`, so a thread that loaded its job at its start tests
those old values when it finishes; only the lock row, never loaded before, is read anew.

### Abstractions

- The selects of a claim (busy keys, idle workers, candidates) are one read, the loading of
  the chosen rows a second. Nothing between two selects of the first read can make a
  difference that a change between the two reads cannot.
- Candidates are ordered by id. The code orders by priority and submission time; priority is
  never set and times grow with ids.
- Whether a cycle is due is left open, and `enqueue_due_cycles` is one step per product.
- What a runner does between its start and its return is one open step, except that it may
  register a process and, for a preparation job, queue GENUT jobs. Which functions it queues
  is left open. A killed process makes the runner return, which it may do at any time.
- The cancel flag is read once, when the runner returns; the check inside an auto run and
  the final one have the same effect on the row.
- `age` is 0 for jobs that are not running; the column itself keeps its last value, which
  nobody reads.
- The lock row also stores a worker; it is written with the job's worker and read only by
  `delete_genut`, which is in `Administration`.
- An orderly `Scheduler.stop` leaves what a crash leaves, and is a crash here.
- `KeyOf` is constant: products are not renamed, created or deleted here, but in
  `Administration`.
- The loop does not need a slot of the pool for its own steps; job threads do.
- SQLite gives out the largest id in use plus one. `ReuseIds = FALSE` is the idealisation
  in which ids are never given out again; see section 4.

### State of `AutoCycle`

| variables | in the code |
|---|---|
| `remote`, `touched` | the commits of the repository and the functions each changes |
| `head`, `patched` | the checkout: its commit, and whether patches are applied to its files |
| `baseline` | `products.last_scanned_commit` |
| `queued`, `manual`, `genut` | the GENUT jobs of the product in `jobs`: queued by preparation jobs, queued by users, running |
| `prep` | the running `auto_diff` or `auto_scan` job: the HEAD it has read, the files and functions it has still to look at, its `EnqueueContext._pending`, the tests a scan has seen |
| `tests` | functions with a file in the success or failure folder |
| `first`, `served` | history: the first baseline; the newest commit at which a GENUT job took a function up (or a user took its job away) |
| `clients`, `faults`, `upsets` | budgets of the model |

| actions | code |
|---|---|
| `StartDiff`, `StartDiffFails` | `run_diff_job` up to its loop; a failing `git diff` sets the baseline to HEAD |
| `StartScan` | `run_scan_job` up to its loop |
| `NextFile`, `SkipFile` | one round of the loops: the functions changed or without tests; a source that cannot be read is skipped |
| `Enqueue` | `enqueue_genut_job`, with its commit |
| `FinishPrepJob`, `PrepAborts` | the end of the loops; an exception, a cancel or a crash anywhere before |
| `StartGenut`, `GenutReturns`, `GenutFails` | `genut_runner.run`: update and patches, then the tests it leaves |
| `Submit`, `CancelQueued`, `DeleteTests`, `PullCode` | `submit_request`, `cancel_all_jobs`, the three deletions of `api/test_status.py`, `pull_code` |
| `Push` | somebody pushes to the repository |

Abstractions of `AutoCycle`:

- A function is changed by a commit or not; line ranges appear where they matter, namely when
  the working tree is not the commit they are of: then a diff may find any functions.
- No commit undoes another. A net change of nothing would need no new test.
- Update mode `reset`; with `rebase` HEAD can be a local commit. Added files are left to the
  scan by the code and so are absent here; a modified rename touches all functions.
- A file with no function, names that differ in case only and files that share a stem are left
  out: `FileOf`, `AutoList` and `CompileDb` are given.
- What GENUT writes is external: a run that does not fail leaves a test, good or bad, for every
  function it was asked for.
- `pull_code` and the deletions test that no job runs and act later; a job may start in
  between. Since every job starts when none runs, acting at any time is the same as having
  tested just before.

### State of `TestStatus`

| variables | in the code |
|---|---|
| `products`, `jobs` | the table `products` (name and `updated_at`), the products with a running job |
| `checkouts`, `disk` | which code directories hold a clone; the tests in them, in `<out>` or `<out>_Fail` |
| `snapshots` | `test_status_snapshots`: fingerprint, and for each product of the group the tests listed |
| `refresher` | the call of `refresh_snapshots`: detached products, products still to scan, rows gathered, the row that `session.get` found |
| `reads`, `cache` | summary requests between their statements; `_summary_cache` of each process |
| `deletes` | the deletions: products still to check, the `pairs` to clean |
| `gone`, `raced` | history: what completed deletions removed and nobody wrote since; what of it a refresh or a summary request had read before and not yet published |
| `upsets` | budget of the model |

| actions | code |
|---|---|
| `RefreshBegin`, `RefreshScan`, `RefreshLook`, `RefreshStore`, `RefreshFails` | `refresh_snapshots`: products, `scan_group`, the first `session.get`, the transaction; the `except` of `_status_refresh_loop` |
| `BeginSummary`, `LookInCache`, `LoadSnapshots`, `ReadScan`, `Answer` | `get_test_status_summary` |
| `GetDetail`, `Expire` | `get_test_status_detail`; the time to live of the cache |
| `DeleteFile`, `DeleteFailed`, `DeleteTarget`, then `DeleteCheck`, `DeleteRemove`, `DeleteFails` | the three deletions: what is asked for, the busy check of each checkout, the removal in each |
| `DeleteSnapshot`, `ClearCache` | `_invalidate_after_delete` |
| `JobStart`, `JobClones`, `JobWrites`, `JobEnd`, `EditProduct`, `RemoveProduct` | jobs and product requests as far as the test status sees them |

Abstractions of `TestStatus`:

- A report is the set of (product, test) pairs it lists. Counts, log files and the order are
  functions of files that change with them, and are left out; so are target files without
  tests. All checkouts use the same relative folders.
- `session.get` flushes what is pending before it reads, so only the first row is read
  outside the transaction of `refresh_snapshots`; `RefreshLook` reads it, and `RefreshStore`
  fails as a whole if it is gone.
- A rename changes the name only; `RootOf` is constant (`code_path` is not edited), and names
  do not move between projects.
- The check of a checkout and the test for its `.git` folder are one step. So is the removal
  of files from one checkout, but `DeleteFails` leaves any part of it done.
- A deleted product's id is not given to a product with another checkout.

### State of `Checkout`

| variables | in the code |
|---|---|
| `remote`, `dir.fetched`, `dir.base`, `dir.local` | the branch of the remote, `origin/<branch>`, the commit HEAD is based on, and whether local commits of users are on top |
| `dir.state`, `dir.torn`, `dir.stop` | no `.git`, one without references, or a clone; `index.lock` and a half-written tree; a stopped rebase with its autostash |
| `dir.patch`, `dir.conflict`, `dir.tests` | the patches in the tree; unmerged files; the files of the output folder, untracked or staged |
| `upd` | the call of `ensure_checkout` and `apply_patch` each thread is in: mode, patches listed and still to do, the backup, the commit fetched |
| `orphans` | backups (`genut_keep_*`) whose thread is gone |
| `made`, `exposed`, `owed`, `cut` | history: tests written; tests that a shared window or a failed copy may lose; local commits nobody reset; rebases cut short |

| actions | code |
|---|---|
| `Begin` | `genut_runner.run` reading the product; the busy test of `pull_code` |
| `Fetch`, `FetchFails`, `StartClone`, `EndClone`, `CloneFails`, `Compare` | `ensure_checkout` up to `_backup_preserved` |
| `HardReset`, `HardResetKilled` | the branch `reset` |
| `Rebase`, `RebaseKilled`, `Abort` | the branch `rebase` |
| `Restore`, `RestoreFails` | `_restore_preserved` in the `finally` and what it raises |
| `Skip`, `Apply`, `PatchFails`, `ApplyKilled` | `apply_patch`: reverse check, apply, three-way |
| `Ready`, `Generate`, `FinishRun` | GENUT, external: it writes tests |
| `Push`, `Commit`, `Crash` | others push, users commit in the checkout, the server dies |

Abstractions of `Checkout`: a step is one git command or one copy, and what git does to a
tree is external, modelled from its documentation as `Reset`, `Popped`, `Rebased`, `Stopped`
and `Aborted`. Patches do not touch each other's lines; whether one fits a commit is given
(`Fit`). A killed command ends at once, with any part of its effect that its kind can leave.
One product has a checkout for itself. The output folder is one set of files.

### State of `ProcessRun`

| variables | in the code |
|---|---|
| `worker` | the thread of the job: its stage, where in `run` or `run_streaming` it is, whether the timeout has passed |
| `leader`, `children` | the process of each command; its descendants: with the pipe, without it, or with it outside the process group |
| `reader`, `stop`, `after` | the reader thread of a stream: reading a line, past the test of the event, in the callback, gone; the event; history: callbacks after the return |
| `flag`, `registered` | `process_registry._canceled` and `_procs` for this job |
| `canceler`, `killed` | cancel requests between the mutex and the kill; history: groups killed |

| actions | code |
|---|---|
| `Check` | `_ck` |
| `Popen`, `NotFound`, `Register`, `KillNow` | `Popen` and its `FileNotFoundError`, `on_start` with `process_registry.register` and the kill after it |
| `Wait`, `Join`, `Close` | `run_streaming`: wait, join the reader for a while, else close the pipe and return |
| `Communicate`, `Reap` | `run` |
| `Timeout` | both: `TimeoutExpired`, then `kill_tree` |
| `ReadLine`, `BeginCallback`, `EndCallback`, `EndOfFile` | `_reader` of `run_streaming` |
| `Cancel`, `CancelKills` | `process_registry.cancel` |
| `Fork`, `Exit`, `ChildExits` | the processes, external |
| `Unregister` | the end of the job |

Abstractions of `ProcessRun`: the contents of output and the exit code are left out but for
success and failure; a job's script of stages is a constant, and every script ends as soon
as a command fails, although some failures are tolerated (`Returns` allows both). There is
one process per job in the table at a time.

### State of `FunctionScan`

A symbol stands for a character or a word: names, keywords, brackets, quotes, a newline, a
letter that is no ASCII. `text` is the source, `masked` the mask in the making, `i` the
position, `phase` the loop it is in, `lineStart` and `quote` locals of `_mask`, `segStart`
the start of the current statement, `cand` the candidate `extract_functions` looks at, `spans`
the functions found. One action per branch of the two loops; `Closed` is `_skip_balanced`
and `Unblanked` `_skip_ws`, as sets of one element. Numbers, templates and the languages'
other operators are symbols without a branch of their own and are left out. `text` is any of
`Texts`.

What the mask is compared with is no translation of the code but a lexer of its own
(`Lexes`, `Lexed`, `Hidden`), written from the rules of C: a `\` at the end of a line is taken
out before anything else is looked for (`Spliced`), a comment counts as a blank, a directive
begins with the first `#` of a line. Where `_mask` reads a text otherwise is said by
`Departs`, place by place, and listed in section 3.

### State of `Administration`

| variables | in the code |
|---|---|
| `name`, `job`, `lock`, `worker` | the four tables; a name stands for project and name |
| `requests` | API calls between their statements: a deletion that has counted, a submit that has read its product |
| `plan` | the choice of a claim between its read and its write |
| `thread` | job threads: the worker their session remembers, whether it was theirs at the start |
| `lost`, `moved` | history: jobs robbed by a request that had counted before; jobs whose product was renamed under them |

| actions | code |
|---|---|
| `CreateProduct`, `RenameProduct`, `CreateWorker` | the requests of one statement |
| `CountForProduct`, `DeleteProduct`; `CountForWorker`, `DeleteWorker` | `delete_product`, `delete_genut`: the count of active jobs, the deletion with its cascades and foreign keys |
| `Submit`, `Insert` | `submit_request` |
| `ClaimRead`, `ClaimWrite`; `ClaimPrepRead`, `ClaimPrepWrite` | `claim_jobs`; `claim_prep_jobs`, which writes nothing if a row it has read is gone |
| `Start`, `FinishGenut`, `FinishPrep`, `FinishNothing` | `process_job`, `process_prep_job` and `finish_job`, with the fallback when a row is gone |

Abstractions of `Administration`: the watchdog, the sweep, cancels, reruns and restarts are
in `JobScheduler`. Ids are given out in order and again once they are free, except those of
jobs: a deleted job's id stays unused, for the reasons of section 4.

## 3. Model checking

| run | what it asks | instance | properties |
|---|---|---|---|
| `SharedKey` | is a key exclusive, also between GENUT and preparation jobs, whatever requests do within a claim? | 3 jobs, 2 products with one key, an auto cycle; jobs canceled or deleted between the read and the write of either claim, reruns | `OneRunningPerKey`, `KeysAreOwned`, `StartsInOrder`, `ImplementsExclusiveKeys` |
| `ClaimRollback` | does a claim that is partly refused leave a running job without a lock, what ended with one, or a worker with two jobs? | 2 products, 2 workers, one thread of any speed, jobs canceled and deleted during a claim or a reap | `TypeOK`, `RunningHoldsLock`, `OnlyStartsLeak`, `ImplementsExclusiveWorkers` |
| `Results` | if no thread outlives the limit, is everything consistent? | 3 jobs, 2 products with one key, an auto cycle, a crash, a failed transaction | `JobsAreAttended`, `RunnersApart`, `ResultsAreFinal` |
| `Recovery` | does the system always recover? | 3 jobs, 2 products, sweeps every second tick, a crash, a failed transaction | `RunningEnds`, `HoldingsAreFreed`, `QueueMoves`, `OnlyStartsLeak` |
| `AutoCycle` | does an automatic cycle miss a change, queue twice, or leave a function without tests? | 2 functions of a file that is listed twice, 2 commits, a user request, a fault, an upset | `NoChangeMissed`, `ChangesAreTracked`, `NothingQueuedTwice`, `TestsAppear` |
| `TestStatus` | do deleted tests stay hidden, do refusals delete nothing, does the display catch up? | 2 products of one name with a checkout each, one not cloned; 2 names, a test, a summary request, a deletion, an upset | `DeletionsAreTracked`, `OnlyRacesShowDeleted`, `RefusedDeletesNothing`, `StatusCatchesUp` |
| `Checkout` | do updates keep tests, patches and local commits, is success current, do they recover? | a job in both modes, a download; 3 commits, of which one clashes with the patch and one contains it, local commits that fit two of them; a test, a fault | `TestsKept`, `RunsPatched`, `SuccessIsCurrent`, `LocalCommitsKept`, `JobsGetThrough` |
| `ProcessRun` | does a cancel always kill, a call leave nothing, a job always end? | a probe, a check, a tool and a git command, each with children of three kinds; a cancel at any moment | `KillIsComing`, `NothingLeftBehind`, `OneLateCallback`, `CancelEnds`, `JobEnds` |
| `FunctionScan` | does the parser find the functions of C sources, nothing else, and end on any text? | all texts up to 4 symbols of two alphabets, also behind the start of a candidate; texts up to 3 behind the start of a directive, a comment or a literal; sources of up to three parts, where a part is a function of five forms, a construct that is none, or a block | `MaskAgrees`, `FunctionsAreSound`, `FindsAll`, `ScanTerminates` |
| `Administration` | do deletions and renames leave running jobs alone? | 2 GENUT jobs and a preparation job, 2 products of one name or two, 2 workers, 2 requests in flight, 2 edits | `RunnersApart`, `RunningRowsStay`, `JobsLetGo` |

All ten pass. `SlowThreads = TRUE` lets a job exceed the limits of the watchdog while its
thread lives. The code cannot exclude that: the limit of the watchdog and the timeouts of
the processes are settings, and a thread is not stopped by a reap. `Results` assumes that
threads keep within the limit, and has no request that cancels all jobs of a product: its
properties are false otherwise, as the list below shows. `JobsAreAttended` is the invariant
their proofs rest on (section 4).

Statements of the code's own comments and docstrings that the code does not keep; each run
ends in a counterexample.

| run | statement | what happens |
|---|---|---|
| `ClaimRevivesCanceled` | job_service.py:84, no double handling even if racing with a claim | a claim sets a job that was canceled meanwhile to `running` |
| `NeverRaises` | c_function_parser.py:5, a source the parser cannot read yields a partial result and no exception | a letter outside ASCII where an identifier may start passes `isalpha` but not the pattern, and the assertion of line 229 fails |

Met while modelling, shown by TLC or by reading, without a run of their own:

- engine.py:136 promises that ending an ended job is a no-op. The guard reads the status the
  thread's session cached, so a thread that outlives the watchdog's verdict sets its failed
  job to `done`; `_finish_prep` has no guard. Hence `SlowThreads = FALSE` in `Results`: that
  the thread of a reaped job overrules its result, or works beside its successor, is caught
  by no property. What is shown for such threads (`ClaimRollback`, and the theorems on locks,
  keys and workers) is that they take no lock from a running job, leak nothing, and pass no
  worker on without freeing it.
- janitor.py:51 wants a reaped thread to find its cancel flag; line 61 unregisters the job
  right after, which drops the flag.
- `claim_prep_jobs` (auto_tick.py:150) writes over what has become of the jobs it chose, as
  `claim_jobs` does: a preparation job canceled in between runs; if one is deleted the tick
  fails and the others wait for the next.
- `claim_jobs` (docstring engine.py:38) also returns assignments that a rollback inside
  `try_acquire_lock` (lock.py:21) has undone. With two workers it takes one request that
  cancels all jobs of a product and one that deletes, between the read and the write of a
  claim. The task of an undone job then finds it queued without a worker and fails it
  (worker.py:87), or finds it claimed again by the next tick and runs it a second time; the
  first of the two to end frees the worker under the other. `WorkerServesItsJob`, a part of
  `JobsAreAttended`, is violated even if all threads keep within the limit.
- A checkout that is up to date keeps its patches, so a diff matches lines of commits with
  functions of patched files (auto_run_service.py:304, 396); the baseline advances all the
  same.
- A refresh that scanned before a deletion stores its rows after it
  (test_status_snapshot_service.py:102), and the test is shown until the next one.
  `OnlyRacesShowDeleted` says that nothing but such a race shows a deleted test. The status
  server is not even promised that: its cache is in another process and runs out by itself.
- The test for a pending cycle and its insert are two statements (auto_tick.py:77), so the
  loop and a manual run can both insert a cycle; `StartsInOrder` holds for these too,
  by the theorem `OldestFirst`: two cycles are four jobs, more than the run has.
- A cancel flag set for a job that is over stays (api/jobs.py:118), and a job that gets the
  same id inherits it.
- `delete_failed_tests` (test_status_service.py:259) deletes logs by name, also that of a
  passing test called like a failed one, which its docstring excludes; logs are not
  modelled.
- With `ReuseIds = TRUE` in `ClaimRollback.cfg` TLC refutes `RunningHoldsLock` in 9 states: a
  job that a claim has read is canceled and deleted, its id goes to a new job of another
  product, and the claim starts that one without the lock of its product.
- `apply_patch` (git_ops.py:348) calls itself idempotent; a patch whose lines a later patch
  has changed can be neither reversed nor applied again. `Patches` of `Checkout` are apart.
- `ensure_checkout` (git_ops.py:141): a rebase whose autostash does not fit exits with 0, so
  GENUT runs on files with conflict markers and later updates refuse: `dir.conflict`, in
  `Stuck`.
- A killed clone leaves a `.git` without references and a killed reset an `index.lock`; no later
  update removes either (the other disjuncts of `Stuck`). A reset torn
  after HEAD has moved passes for up to date. Removing a patch from a product leaves it in
  an up-to-date tree. The folder `<out>_Fail` is not among the preserved ones.
- `gerrit_patch_service.py:87` fetches, then reads `FETCH_HEAD`, which another fetch may
  have moved.
- A finishing thread frees the worker its session remembers, also one created meanwhile
  under the same id; when the worker's row is gone the transaction fails
  and the fallback records a failure although GENUT succeeded.
- `delete_product` may delete the row of a preparation job claimed after it has counted: such
  jobs have no lock whose foreign key would refuse (`RunningRowsStay` says so).
- The comment at subprocess_util.py:141 excludes callbacks after the return; one is possible
  per call, since test and callback are two steps (`OneLateCallback`). A `run` whose command
  has ended while a grandchild holds the pipe counts as timed out. Processes outside the
  group, in containers for instance, survive `kill_tree`.
- Between two commands of a job the registry keeps the finished process
  (process_registry.py:68), whose pid may have been given out again; pids are not modelled.
- A creation of `.venv` that is killed leaves `pyvenv.cfg`, and the environment passes for
  complete (genut_runner.py:86). `result.json` of an earlier run is read if a run writes
  none (line 287).
- The parser takes `M() namespace a {` for a function `M`.
- `_mask` (docstring c_function_parser.py:83: comments, the contents of literals and
  preprocessor lines are blanked) reads these otherwise than C. `Departs` names the places,
  and `MaskAgrees` says nothing of a text that has one:
  - a block comment opened in a directive that goes on behind the newline: the branch for
    directives (lines 107-123) looks for no comments and ends with the line, so the rest of
    the comment is taken for code;
  - a `//` comment whose line a `\` continues (lines 127-131): the next line is taken for
    code. Likewise a `\` and newline between the two symbols of `//`, `/*` or `*/`: the mark
    is not seen;
  - a literal whose line is continued by a `\` that is itself escaped, or that has blanks
    behind it (lines 147-156): the literal ends with the line. A plain `\` before the newline
    is read as C does;
  - a `#` behind a comment on its line, which is a directive in C and code here (line 125);
    and a `#` that a `\` before the newline puts in the middle of a line, which is none in C
    and a directive here (lines 99-107).

  Texts with a literal that is not closed on its line are excepted as well (`Unclosed`): they
  are not C.

`NoChangeMissed` is `ChangesServed` for behaviours without an upset, that is without the
three things that do lose changes in this code: a failing `git diff`, for whatever reason,
also a timeout, re-bases at HEAD (auto_run_service.py:337), although the module's docstring
(line 7) promises to retry the range; a source that cannot be read is skipped and the
baseline advances; and a pull moves the code under a running diff. Patches are the fourth.

Bounds. Two jobs are enough for a claim to race with a request; three allow a GENUT job
beside a whole cycle, or a successor of a successor. Two products with one key are the
smallest case in which a lock per product does not suffice. Two threads are needed for two
jobs to overlap (`ClaimRollback`, where claims overlap instead, has one), and a pool with no
free slot is reached with three jobs. One worker makes every claim compete for it;
`ClaimRollback` needs two, since a refused lock matters only when another assignment
precedes it. One failed transaction and one crash can hit any step. `MaxCalls` bounds
requests in between their steps, not requests. `SweepEvery = 1` makes every tick a sweep,
which adds interleavings; `Recovery` uses 2 to have ticks without one. Workers and threads
are interchangeable (symmetry, not used in the liveness run), and so are the products of
`ClaimRollback`, where each has a key of its own. Deadlock is checked in every run of the
first three modules and of `Checkout`; in the others the system may come to rest. In
`AutoCycle` two functions of one file are the smallest case in which a job for the file
stands in for one for a function; a file listed twice meets its own requests again; with two
commits a diff can start from a baseline that is neither the first commit nor behind HEAD by
all of them; one request, fault and upset can hit any step.

In `TestStatus` two products of one name make a group in which one
checkout is busy, not cloned or already clean while the other is not; a second name allows a
rename, also into a group of its own and back, and one test is enough, since files in one
folder do not interact. One reader, refresher and deletion overlap in every way two of a kind
could only repeat. The upset is a job, an edit or removal of a product, a failed scan,
refresh or deletion, at any moment. One server process suffices for the safety properties,
which are about the main one, and for the liveness, as caches do not interact.

In `Checkout` two users of the tree overlap in all their steps; three commits are one that
fits, one that clashes with the patch and one that contains it, in each order that pushes
allow; one killed command, failed copy, cancel or crash can hit any step, after which all
that it left meets later updates, as jobs and downloads come again without a bound. Patches
and tests of one checkout do not interact, so one of each is enough. The downloads take mode
`reset` only: their rebase differs from the job's in what a failure answers, and the proofs
cover it. In `ProcessRun` four stages have each kind of stage followed by one of another
kind; the children of a command of each kind are a set, as two of one kind live and die like
one. The invariants were also checked with two cancels. In `FunctionScan` four symbols are
the smallest length at which a comment, an escape or a block closes and something follows;
three behind the start of a directive, comment or literal continue it, leave it or end it;
four behind `f ( )` take a candidate through each of its branches; composed sources reach
lengths of 33 symbols, with blocks entered and blocks skipped. In `Administration` a claim
of two jobs has a lock refused with another assignment before it; two workers and two
products let a deleted row's id come back while another stays; the two edits are a deletion
and a creation, or two deletions; two requests overlap each other and a claim.

Fairness of `FairSpec`, used by `Recovery`: the loop keeps stepping (`_loop` catches every
exception of a tick and sleeps a fixed time), a dead server is started again (`Boot`; the
operator's duty), each thread keeps going. That a runner returns is justified by the
timeouts all its subprocesses have: `JobEnds` of `ProcessRun`. Time passes (`Age`).
Requests, failures and crashes are not fair, registering a process and queueing jobs are not
either. Liveness is checked under a bounded number of faults and crashes: after the last one
the system recovers.

`TestsAppear` assumes that preparation steps and GENUT runs go on, and strongly that queued
jobs start and scans begin. A product is free again and again but not forever, so weak
fairness would say nothing. Strong fairness is what the loop gives: every tick claims queued
GENUT jobs of free products in the order of their ids, then a due preparation job; cycles
come due forever, and with deduplication the queue runs empty in between. Requests, pushes,
faults and upsets are not fair.

`JobsGetThrough` of `Checkout` assumes that git commands, copies and GENUT end (`JobEnds`)
and that jobs for the product keep coming. Pushes, commits, faults and downloads are not
fair; a download that has begun goes on. It excepts what no update repairs (`Stuck`): it
says that everything else is repaired. `CancelEnds` and `JobEnds` of `ProcessRun` assume
that threads run, that a killed process is dead and that probes have their timeout
(git_ops.py and the others pass one); `JobEnds` alone also assumes `Timeouts`, that of each
stream, which `CancelEnds` does without: a cancel must not wait for a timeout. No process is
ever assumed to end by itself. `ScanTerminates` needs only that the loop goes on.
`JobsLetGo` of `Administration` assumes that a claim that has read writes and that threads
of jobs go on; requests are not fair. It holds without the watchdog and the sweep, which are
not in the module.

`StatusCatchesUp` assumes that the refresh goes on, as `_status_refresh_loop` swallows every
error and sleeps a fixed time, and that a cached summary expires. Requests, deletions, jobs
and edits owe nothing; a failed refresh or scan is an upset.

Each property of a passing run is refuted when one definition is changed the way a bug
would: the mutated definitions stand next to the originals, marked `mutant`.

## 4. Proofs

Checked by tlapm for every number of jobs, products, workers, threads, faults and crashes,
for every number of files, functions, commits and requests, for every script of commands and
every text.

| theorem | statement |
|---|---|
| `TypeCorrect` | `Spec => []TypeOK` |
| `KeysOwned` | `Spec => []KeysAreOwned`, if ids are not reused |
| `LocksHeld` | `Spec => []RunningHoldsLock`, if ids are not reused |
| `Exclusion` | `Spec => []OneRunningPerKey`, if ids are not reused |
| `Refinement` | `Spec => ImplementsExclusiveKeys`, if ids are not reused |
| `OldestFirst` | `Spec => StartsInOrder`, if ids are not reused |
| `LeavingNothing` | `Spec => []JobsLeaveNothing`, if ids are not reused |
| `LeaksOnlyAtStarts` | `Spec => OnlyStartsLeak`, if ids are not reused |
| `NothingLeaked` | `Spec => []NoneLeaked`: while the server is up and no transaction has failed, nothing that is over holds a lock or a worker; if ids are not reused |
| `WorkersRefinement` | `Spec => ImplementsExclusiveWorkers`, if ids are not reused |
| `JobsAttended` | `UndisturbedSpec => []JobsAreAttended`, if neither ids are reused nor threads slow |
| `WorkersServe` | `UndisturbedSpec => []WorkerServesItsJob`, likewise |
| `NoneOrphaned` | `UndisturbedSpec => []NoOrphans`, likewise |
| `RunnersKeptApart` | `UndisturbedSpec => []RunnersApart` of `JobScheduler`, likewise |
| `ResultsKept` | `UndisturbedSpec => ResultsAreFinal`, likewise |
| `UndisturbedWithoutCancelAll` | `Spec => UndisturbedSpec`, likewise, if nobody cancels all jobs of a product |
| `CyclesAreTracked` | `Spec => []ChangesAreTracked` of `AutoCycle`, for a product without patches |
| `CyclesMissNoChange` | `Spec => []NoChangeMissed` of `AutoCycle`, for a product without patches |
| `NothingIsDoubled` | `Spec => []NothingQueuedTwice` of `AutoCycle` |
| `DeletionsTracked` | `Spec => []DeletionsAreTracked` of `TestStatus` |
| `DeletedStayHidden` | `Spec => []OnlyRacesShowDeleted` of `TestStatus` |
| `RefusalsAreHarmless` | `Spec => []RefusedDeletesNothing` of `TestStatus` |
| `PatchesAreApplied` | `Spec => []RunsPatched` of `Checkout` |
| `NoOldCode` | `Spec => []SuccessIsCurrent` of `Checkout` |
| `TestsAreKept` | `Spec => []TestsKept` of `Checkout` |
| `CommitsAreKept` | `Spec => []LocalCommitsKept` of `Checkout` |
| `CancelsReachProcesses` | `Spec => []KillIsComing` of `ProcessRun` |
| `CallsCleanUp` | `Spec => []NothingLeftBehind` of `ProcessRun` |
| `LateCallbacksAreBounded` | `Spec => []OneLateCallback` of `ProcessRun` |
| `RunningStay` | `Spec => RunningRowsStay` of `Administration` |
| `RunnersStayApart` | `Spec => []RunnersApart` of `Administration` |
| `FunctionsSound` | `Spec => []FunctionsAreSound` of `FunctionScan` |
| `FunctionsApart` | `Spec => []SpansApart` of `FunctionScan` |
| `MaskAgreesWithC` | `Spec => []MaskAgrees` of `FunctionScan` |
| `EveryStepShrinks` | every step of `FunctionScan` decreases a variant |

Assumptions: `ConstantsAssumption` of `JobScheduler`, and `~ReuseIds` for all but its types;
`CycleAssumption` of `AutoCycle`, and `~HasPatches`, without which the statement is false (a
diff on patched files, section 3); `StatusAssumption`, `CheckoutAssumption`,
`ScriptAssumption`, `AdministrationAssumption`, `TextsAssumption` and `NamesAssumption` (a
letter is not a bracket, a quote or a blank) of the other modules.
Neither the exclusion of running rows nor what jobs leave behind depends on the speed of
threads (`SlowThreads` may be TRUE) or on whether requests hit the window of a claim.
The theorems on who works on a running job need `~SlowThreads` and are about
`UndisturbedSpec`, the behaviours in which no job is canceled while a claim has chosen it. Both
hypotheses are necessary (section 3), and neither is one the code enforces: the first is a
matter of its settings, the second says that two requests do not hit the window of a claim.
`UndisturbedWithoutCancelAll` gives the second wherever `cancel_all_jobs` is not used, as
nothing else cancels a queued job without looking; the run `Results` is such an instance. The
proof needs `JobsAreAttended` itself: that a thread ends no chosen job is what it says.

`TypeCorrect` also carries that a row has a product and an active thread a job, which the
other proofs need.

`OneRunningPerKey` is not inductive: nothing in it says why a job that is about to start
has its key for itself. The inductive invariant is

    KeysAreOwned == RunningHoldsLock /\ OneLockPerKey /\ PrepsExcludeLocks
                    /\ OnePrepPerKey /\ PlanHolds /\ PlanIsOldest
                    /\ PicksHold /\ PicksAreOldest

The first four say how the two kinds of jobs own a key: a running GENUT job through the lock
row of its product, of which there is at most one per key; a preparation job by running,
which excludes locks and other preparation jobs of the key. `PlanHolds`, and `PicksHold` for
preparation jobs, carry what a claim has read over to its writes: the keys it wants are
still not busy and the jobs it chose are gone or unchanged but for their status. They hold
because between the steps of a claim nothing can make a key busy: only claims do, and there
is one loop. The proof splits the actions accordingly: most of them start nothing, that is
they only end jobs, release locks, delete rows or add queued ones (one lemma covers them
all), and the steps of the two claims are treated one by one. `~ReuseIds` is needed for
these two only: with ids given out again a claim may write an assignment for a row deleted
and replaced by another meanwhile. `PlanIsOldest` and `PicksAreOldest` are for
`StartsInOrder` alone: the jobs a claim has chosen are the oldest queued ones of their keys,
and stay so until it writes, since ids grow and no job goes back to the queue.

`Refinement` maps the holder of a key to the job running for it. Steps that start nothing
are `Leave` or stutter; claims are `Take`. `KeysAreOwned` gives that the holder is unique.

`OnlyStartsLeak` says what cleaning up rests on. Every end of a job, by its thread, a thread
that the watchdog has already given up, the watchdog or a client, frees the lock and the
worker of that job in the transaction that ends it. So nothing that is over comes to hold
anything but by a start of the server that fails after it has ended the jobs of the crash;
and a sweep or a start that goes through leaves none of it. A `finish_job` frees what the
session of its thread remembers, though, not what the tables say; the inductive invariant
says that this is enough:

    JobsLeaveNothing == LocksAreOwned /\ WorkersAreOwned /\ NoneAssigned
                        /\ PlanAssignsOnce /\ RolesFit /\ SessionsFit

A lock or a worker points to a job that points back to it (`LocksAreOwned`,
`WorkersAreOwned`): freeing by the row of the job finds all there is, and at most one of
each. A job that is queued, or prepares, has no worker (`NoneAssigned`), so canceling it
leaves none, and a claim gives each of its workers to one such job (`PlanAssignsOnce`). A
preparation is ended by `_finish_prep`, which frees nothing, so it matters that no thread
takes a GENUT job for one (`RolesFit`). `SessionsFit` is about the values a thread has read:
product and worker of a job never change once it has started, and what the session knows of
the worker is true as long as the job runs; afterwards it may be old, and the late thread
frees a worker that serves another job. That makes an idle worker, not a leak, and the
running job is left without: `WorkerServesItsJob` is lost, which is why the theorems below
need more. The proof has a lemma for each step that winds something up (`WindsUp`, what such
steps keep, and `EndsLeaveNothing`), and treats claims, boots and loading sessions one by
one. `NothingLeaked` follows: a start without a failure leaves nothing, and later steps add
nothing.

`WorkersRefinement` maps the holder of a worker to the running job it is busy with:
whatever late threads free, a worker goes from one job to the next only by way of being
idle, and no running job has two.

`WorkerServesItsJob` speaks of the tables only, but it is threads that free workers, with
values they read long ago. The inductive invariant is

    JobsAreAttended == OneAttendant /\ AttendedRun /\ SessionsAgree /\ PlanIsFree
                       /\ ReapsUnattended /\ LoopAlone /\ WorkerServesItsJob /\ NoOrphans

A running job is worked on by one thread or waits for one (`OneAttendant`), and what is
worked on runs (`AttendedRun`): so a thread that ends its job ends nobody else's.
`SessionsAgree` makes its old values harmless; it is the part that `expire_on_commit=False`
puts in question. `PlanIsFree` says that a claim gives away idle workers and queued jobs,
each once, when it writes as when it read; it is what a cancellation in between would break.
`ReapsUnattended` is the assumption on the speed of threads at work: whom the watchdog ends,
nobody works on. `LoopAlone` is about the loop between its own steps and after a crash. The
proof first says of each step what it leaves alone (`RowsRest`, `WorkersRest`), which
settles most pairs of an action and a conjunct; left are claiming, dispatching, ending,
reaping and booting. `RunnersApart` follows with `KeysAreOwned`, and `ResultsAreFinal` since
a running job that is ended is not a finished one.

`NoChangeMissed` speaks of the baseline only and is not inductive either: a running diff is
about to move it. `ChangesAreTracked` adds what lies between:

    TypeOK /\ InOrder
    /\ (upsets = 0 => DiffAtHead /\ IndexHolds /\ ChangesServed /\ RangeCovered)

`RangeCovered` accounts for every change between the baseline and the HEAD a diff has read:
taken up, awaited, requested, or in a file still to come; when the diff is exhausted only the
first two remain, and that is the new promise of the baseline. `IndexHolds` is why a request
dropped as a duplicate is safe although the index is never read again: the job it relied on
is pending, or a user took it away at this very HEAD; no job can start in between.
`DiffAtHead` and `InOrder` say that the checkout neither moves under a diff nor goes back.
The proof has a lemma for every action that adds to or takes from what is accounted for, and
two (`NothingForgotten`, `NothingForgottenIdle`) for all the others.

`NothingQueuedTwice` rests on `QueueIsIndexed`: the index of a running preparation job,
which is read once and never again, knows every job that is queued, because others only take
jobs away or add jobs of users. It may know too many, which `IndexHolds` is about.

`OnlyRacesShowDeleted` is about what is shown; the next thing shown is what the refresher or
a summary request has gathered. The inductive invariant is

    DeletionsAreTracked == TypeOK /\ DeletedIsOffDisk /\ OnlyRacesShowDeleted
                           /\ OnlyRacesCarryDeleted /\ HalfInvalidated

`DeletedIsOffDisk`: a scan cannot find again what was deleted, so nobody who starts to read
after the deletion matters. Its type part says that a folder without a clone holds no tests,
hence cloning, which brings tests back, cannot hit a checkout a deletion has cleaned.
`OnlyRacesCarryDeleted` says of what is gathered what `OnlyRacesShowDeleted` says of what is
shown. `HalfInvalidated` bridges the two halves of an invalidation. The proof treats all steps
that only pass on what was read by one lemma (`QuietStep`): rows flow from disks to the
refresher and the requests, from the refresher to snapshots, from both to requests, and from
requests to the cache. Left are the removal, the two halves of the invalidation and the
writing of tests. `RefusedDeletesNothing` rests on `ChecksComeFirst`: while a checkout is
still to be looked at, nothing has been removed. Of a job that starts after the checks it
says nothing.

`RunsPatched` and `SuccessIsCurrent` are about the moment GENUT runs; the inductive
invariant `CheckoutInv` says of every thread at every place in an update what it has already
established (`Sound`): a patch that is not in `todo` any more is in the tree, and once an
update has gone past the commands, HEAD is at the commit fetched. A thread that changes the
tree withdraws both promises from the others (`disturbed`, `seen`). The proof has one lemma
for what each git command does to a directory, since their effects are the records everything
else is about. `TestsKept` needs more: `RiskIsKnown` says that what a command may
remove is in the backup of the thread that runs it, or staged after that backup in a window
two threads share; `OneStop` that at most one rebase is stopped, so that nothing is put
aside twice. For `LocalCommitsKept`, `CommitsInv` adds where local commits are: on HEAD, or
put aside by a stopped rebase that some thread is going to undo; and that a clone is made by
one thread at a time, in a directory nobody has committed in.

`ProcessInv` of `ProcessRun` describes what the thread of the job knows at each place in a
call (`InCall`), that a killed group stays dead whatever forks, since a leader that is dead
forks no more (`KilledIsDead`), that a reader has ended only because it was told to or
because its pipe is closed for good (`ReadersEnd`), and that a late callback is that of a
line that had passed the test before the return (`LateCallbacks`).

`AdminInv`: what a claim has read is still there but for deleted rows (`PlanApart`); a
request that goes on to delete has seen no running job (`NothingSeen`); a running GENUT job
that nobody robbed has the lock of its product (`LocksStay`). With the last one the foreign
key refuses the deletion of a job claimed after the count.

`RunnersApart` adds `ApartInv == ThreadsAgree /\ WorkersServe /\ KeysApart /\ PlanIsFree`.
A thread works on a running job, its own, and remembers the worker of its row
(`ThreadsAgree`), except for jobs that a request has robbed (`lost`); the worker of a
running job serves it (`WorkersServe`), so a worker deleted and created again under the same
id is not mistaken for the old one; running jobs have different keys, but for those whose
product was renamed under them (`KeysApart`, `moved`); what a claim will write keeps that so
(`PlanIsFree`).

`ScanInv`: the parser is past what it has found. Every function ends before the current
statement starts, a candidate lies within the statement, and every branch either
stays in it or starts the next one further on.

`FunctionsAreSound` says in addition that what is found is a function: a name, parameters
that close, nothing that ends a declaration before the body, and a body up to the brace that
closes it. The parser knows that when it accepts a candidate, several steps after it has
read the name, and may have passed attributes, further parentheses and initializers since.
`FoundInv` adds to `SpansAreFunctions` what is known of the candidate at each place
(`CandidateFits`): its parameters close before the position and nothing from there to the
position decides (`Undecided`), a property that adds up over adjacent stretches, so every
step needs to look at the stretch it passes only. That nothing between the pieces is
overlooked is what `GoesPast` says: a step over parentheses passes only what they enclose.

`MaskAgrees` compares the mask with `Hidden`, which is defined by lexing the text from its
start (`Lexed`, a recursive function). What a recursive function is at each position cannot
be had by induction here; that it exists can: the least number at which a function so
defined would fail to exist is a contradiction, and the library has least numbers as a
theorem about sets. `MaskInv` then ties the loop to it: what is before the position is
masked as it should be and nothing behind it (`HiddenUpto`), and at the position the branch
`_mask` is in is the lexical state of C (`LexesAt`). Lexer and loop do not go in step: the
lexer takes one symbol at a time and skips what is spliced, the loop takes one or two and
looks back over blanks for a `\`. The lemmas say of each branch that it is where the lexer is
unless the text departs there: that what the loop takes for the start of a line is one, that
the marks of a comment are adjacent, that a newline ends what it ends in C. The theorem
assumes that no literal is left open and that no place of the text is in `Departs`; so it
says nothing of the four constructs of section 3.

`EveryStepShrinks` is why `ScanTerminates` holds: what is left of the text decreases with
every step, or, where the position stays or goes back, the turns left at it do. A
candidate that is given up is read again, but only from the end of its parameters on; so
that is where the parser counts as being while it tries the candidate.

Only model-checked:

- the liveness properties `RunningEnds`, `HoldingsAreFreed` (that the step which frees them
  leaves nothing is `LeaksOnlyAtStarts`, that it comes is not proved), `QueueMoves`,
  `TestsAppear`, `StatusCatchesUp`, `JobsGetThrough`, `CancelEnds`, `JobEnds`,
  `ScanTerminates`, `JobsLetGo`: proofs under fairness are out of the prover's reach. Of
  `ScanTerminates` the variant is proved, and that the loop is never stuck is not (ENABLED);
- `FindsAll` of `FunctionScan`: it compares with the functions of sources put together from
  given parts, and holds of those only.

## 5. Plan

Done: the scheduler, the automatic cycle, the test status, the checkout, the processes, the
parser and the administration of products and workers. Left, in this order.

1. Proofs: what the other liveness properties rest on and a prover can reach, as
   `LeaksOnlyAtStarts` is for `HoldingsAreFreed`; first variants for `JobsGetThrough` and
   `JobEnds`.
2. More of `AutoCycle`: the update mode `rebase`, in which HEAD can be a local commit; the
   pure parts as operators, each against a reference definition: functions overlapping line
   ranges, matching of tests to functions by name, the filter of the compile database.
3. More of `Checkout`: patches fetched from Gerrit, and two products that share a folder.
4. `ThreadPool`: slots shared by ticks, jobs and terminal sessions; whether a full pool can
   keep a sweep or a cancel from running.

## 6. Not modelled

- Terminal and command requests: a shell per connection, or one `run` after the busy test;
  they share nothing with the rest but the thread pool (section 5).
- The thread pool itself: the loop and the requests act without a slot.
- Gerrit requests: external answers turned into patches.
- The virtual environment and `result.json` of a worker, the `.env` file: contents of files
  that a single thread writes and reads. What is known about them is in section 3.
- The Docker executor: a command line. Processes of a container are the children outside
  the group in `ProcessRun`.
- Compile database and path helpers, the choice between extractor and parser: pure
  functions without state, planned as operators.
- Monitoring, file tree and files API: they only read. Events and their purge: no job
  depends on them.
- Migrations, settings, schemas, wiring: run once, or without state. The frontend: its
  requests are the client operations of the modules.
