------------------------------ MODULE TestStatus ------------------------------
(***************************************************************************)
(* What the page "test status" shows: snapshots that a background thread   *)
(* computes from the checkouts, a summary cache in each of the two server  *)
(* processes, and the requests that read both or delete tests, while jobs  *)
(* write tests and users edit products.                                    *)
(*                                                                         *)
(* A name stands for a pair (project, name); products with one name are    *)
(* reported together.  A step is one statement on the database, one scan   *)
(* of a checkout or the removal of files from one checkout.                *)
(***************************************************************************)
EXTENDS Naturals, FiniteSets, Functions

CONSTANTS
  ProductIds, Names, Projects, Roots, Files, Stems,
  Servers, Main, \* server processes; only Main has a scheduler and can delete
  ProjectOf,     \* ProjectOf[n] is the project of a name
  FirstName,     \* FirstName[p] is the name product p starts with
  StemOf,        \* StemOf[f] is the target file that f is a test of
  Failing,       \* the tests in folder <out>_Fail; the others are in <out>
  RootOf,        \* RootOf[p] is the checkout of product p
  Cloned,        \* the checkouts there are at the start
  Committed,     \* the tests a fresh clone holds
  Readers,       \* threads that answer requests for a summary
  Deleters,      \* requests that delete tests
  MaxUpsets      \* bound: changes to products, jobs, and scans, refreshes and deletions
                 \* that fail

ASSUME StatusAssumption ==
  /\ Main \in Servers
  /\ Names # {}
  /\ ProjectOf \in [Names -> Projects]
  /\ FirstName \in [ProductIds -> Names]
  /\ RootOf \in [ProductIds -> Roots]
  /\ StemOf \in [Files -> Stems]
  /\ Failing \subseteq Files /\ Committed \subseteq Files /\ Cloned \subseteq Roots
  /\ MaxUpsets \in Nat

VARIABLES
  products,     \* the table products: [name, edit] of each registered id
  jobs,         \* products with a running job
  checkouts,    \* roots that hold a clone
  disk,         \* disk[r]: the tests in root r
  snapshots,    \* the table test_status_snapshots, by name
  refresher,    \* the thread of _status_refresh_loop
  reads,        \* requests for a summary in flight, by thread
  cache,        \* _summary_cache, by server process and project
  deletes,      \* deletions, by request
  gone,         \* history: gone[n], the files that completed deletions under n removed
                \* and nobody wrote since
  raced,        \* history: raced[n], those of gone[n] that a refresh or a summary request
                \* in flight had read before and had not published yet
  upsets

history == <<gone, raced>>
tree    == <<checkouts, disk>>
vars == <<products, jobs, tree, snapshots, refresher, reads, cache, deletes, history, upsets>>

-----------------------------------------------------------------------------
(* Values and queries *)

Row == [code : ProductIds, file : Files]            \* a test file listed under a product
Product == [name : Names, edit : 0..MaxUpsets]      \* edit stands for updated_at
Place == Roots \X Files

PlacesOf(rows) == {<<RootOf[w.code], w.file>> : w \in rows}

Named(table, n)   == {p \in DOMAIN table : table[p].name = n}
NamesIn(table)    == {table[p].name : p \in DOMAIN table}
Of(table, S)      == Restrict(table, {p \in DOMAIN table : table[p].name \in S})
NamesOf(project)  == {n \in Names : ProjectOf[n] = project}

\* group_fingerprint
Fingerprint(table, n) == [p \in Named(table, n) |-> table[p].edit]

\* scan_group finds this for one product, cloning its checkout if there is none.
Listing(p) ==
  {[code |-> p, file |-> f] :
     f \in IF RootOf[p] \in checkouts THEN disk[RootOf[p]] ELSE Committed}

Upset == upsets < MaxUpsets /\ upsets' = upsets + 1

\* ensure_product_checkout
Clone(r) ==
  /\ checkouts' = checkouts \cup {r}
  /\ disk' = [disk EXCEPT ![r] = IF r \in checkouts THEN @ ELSE Committed]

\* A scan that fails, before or after the clone, finds nothing.
Scans(p, rows) ==
  \/ rows = Listing(p) /\ Clone(RootOf[p]) /\ UNCHANGED upsets
  \/ rows = {} /\ Upset /\ (UNCHANGED tree \/ Clone(RootOf[p]))

-----------------------------------------------------------------------------
(* refresh_snapshots *)

NoRefresh == [pc |-> "idle", table |-> <<>>, todo |-> {}, rows |-> [n \in Names |-> {}],
              update |-> {}]

\* Read all products; no transaction stays open during the scan.
RefreshBegin ==
  /\ refresher.pc = "idle"
  /\ refresher' = [NoRefresh EXCEPT !.pc = "scan", !.table = products,
                                    !.todo = DOMAIN products]
  /\ UNCHANGED <<products, jobs, tree, snapshots, reads, cache, deletes, history, upsets>>

RefreshScan(p) ==
  /\ refresher.pc = "scan" /\ p \in refresher.todo
  /\ \E rows \in {Listing(p), {}} :
       /\ refresher' = [refresher EXCEPT !.todo = @ \ {p},
                                         !.rows[refresher.table[p].name] = @ \cup rows]
       /\ Scans(p, rows)
  /\ UNCHANGED <<products, jobs, snapshots, reads, cache, deletes, history>>

\* session.get decides for the first name whether its row is updated or inserted; the
\* flush before the next statement opens the transaction...
RefreshLook ==
  /\ refresher.pc = "scan" /\ refresher.todo = {}
  /\ LET listed == NamesIn(refresher.table)
     IN  \E u \in IF listed = {} THEN {{}} ELSE {{n} \cap DOMAIN snapshots : n \in listed} :
           refresher' = [refresher EXCEPT !.pc = "store", !.update = u]
  /\ UNCHANGED <<products, jobs, tree, snapshots, reads, cache, deletes, history, upsets>>

\* mutant: a row whose fingerprint has not changed is kept
StoreIfEdited ==
  /\ refresher.pc = "store"
  /\ snapshots' =
       IF refresher.update \subseteq DOMAIN snapshots
       THEN [n \in NamesIn(refresher.table) |->
               IF /\ n \in DOMAIN snapshots
                  /\ snapshots[n].fingerprint = Fingerprint(refresher.table, n)
               THEN snapshots[n]
               ELSE [fingerprint |-> Fingerprint(refresher.table, n),
                     rows |-> refresher.rows[n]]]
       ELSE snapshots
  /\ refresher' = NoRefresh
  /\ UNCHANGED <<products, jobs, tree, reads, cache, deletes, history, upsets>>

\* ...which writes all rows and deletes those of other names.  It fails as a whole when
\* the row to be updated is gone by then.
RefreshStore ==
  /\ refresher.pc = "store"
  /\ snapshots' =
       IF refresher.update \subseteq DOMAIN snapshots
       THEN [n \in NamesIn(refresher.table) |->
               [fingerprint |-> Fingerprint(refresher.table, n), rows |-> refresher.rows[n]]]
       ELSE snapshots
  /\ refresher' = NoRefresh
  /\ UNCHANGED <<products, jobs, tree, reads, cache, deletes, history, upsets>>

\* Any other error: the loop swallows it and starts over.
RefreshFails ==
  /\ refresher.pc # "idle"
  /\ Upset
  /\ refresher' = NoRefresh
  /\ UNCHANGED <<products, jobs, tree, snapshots, reads, cache, deletes, history>>

-----------------------------------------------------------------------------
(* get_test_status_summary and get_test_status_detail, in either server *)

Leave(r) == reads' = Restrict(reads, DOMAIN reads \ {r})

\* A summary reads the products of its project...
BeginSummary(r, server, project) ==
  /\ r \notin DOMAIN reads
  /\ reads' = [t \in DOMAIN reads \cup {r} |->
                 IF t = r THEN [pc |-> "cache", key |-> <<server, project>>,
                                table |-> Of(products, NamesOf(project)),
                                todo |-> {}, out |-> <<>>]
                 ELSE reads[t]]
  /\ UNCHANGED <<products, jobs, tree, snapshots, refresher, cache, deletes, history, upsets>>

\* ...and looks in the cache: a cached summary answers only for the products it was made
\* of.
LookInCache(r) ==
  /\ r \in DOMAIN reads /\ reads[r].pc = "cache"
  /\ LET x == reads[r].key
     IN  IF x \in DOMAIN cache /\ cache[x].table = reads[r].table
         THEN Leave(r)
         ELSE reads' = [reads EXCEPT ![r].pc = "load"]
  /\ UNCHANGED <<products, jobs, tree, snapshots, refresher, cache, deletes, history, upsets>>

\* load_summaries: a name with a snapshot is reported as its snapshot says,
\* whatever its fingerprint; the others are scanned.
LoadSnapshots(r) ==
  /\ r \in DOMAIN reads /\ reads[r].pc = "load"
  /\ LET table == reads[r].table
     IN  reads' = [reads EXCEPT
                     ![r].pc = "scan",
                     ![r].out = [n \in NamesIn(table) |->
                                   IF n \in DOMAIN snapshots THEN snapshots[n]
                                   ELSE [fingerprint |-> Fingerprint(table, n), rows |-> {}]],
                     ![r].todo = {p \in DOMAIN table : table[p].name \notin DOMAIN snapshots}]
  /\ UNCHANGED <<products, jobs, tree, snapshots, refresher, cache, deletes, history, upsets>>

ReadScan(r, p) ==
  /\ r \in DOMAIN reads /\ p \in reads[r].todo
  /\ \E rows \in {Listing(p), {}} :
       /\ Scans(p, rows)
       /\ reads' = [reads EXCEPT ![r].todo = @ \ {p},
                                 ![r].out[reads[r].table[p].name].rows = @ \cup rows]
  /\ UNCHANGED <<products, jobs, snapshots, refresher, cache, deletes, history>>

\* The answer, which is cached.
Answer(r) ==
  /\ r \in DOMAIN reads /\ reads[r].pc = "scan" /\ reads[r].todo = {}
  /\ LET x == reads[r].key
         fresh == [table |-> reads[r].table, out |-> reads[r].out]
     IN  cache' = [y \in DOMAIN cache \cup {x} |-> IF y = x THEN fresh ELSE cache[y]]
  /\ Leave(r)
  /\ UNCHANGED <<products, jobs, tree, snapshots, refresher, deletes, history, upsets>>

\* The details of a name come from its snapshot or from a scan of its products.  Nothing
\* is kept of them; a scan may clone a checkout.
GetDetail(p) ==
  /\ \E rows \in {Listing(p), {}} : Scans(p, rows)
  /\ UNCHANGED <<products, jobs, snapshots, refresher, reads, cache, deletes, history>>

\* The time to live of a cached summary is over.
Expire(x) ==
  /\ x \in DOMAIN cache
  /\ cache' = Restrict(cache, DOMAIN cache \ {x})
  /\ UNCHANGED <<products, jobs, tree, snapshots, refresher, reads, deletes, history, upsets>>

-----------------------------------------------------------------------------
(* delete_test_file, delete_failed_tests, delete_target_tests *)

Deletion == [pc      : {"new", "remove", "clear", "done", "refused", "failed"},
             name    : Names,
             one     : BOOLEAN,              \* a single file is to be deleted
             doomed  : SUBSET Files,          \* what is to be deleted
             todo    : SUBSET ProductIds,    \* products whose checkout is to be looked at
             pairs   : SUBSET ProductIds,    \* those whose tests are to be removed
             removed : SUBSET Place,         \* history: what was removed
             raced   : SUBSET Place]         \* history: see raced

NewDeletion ==
  [pc |-> "new", name |-> CHOOSE n \in Names : TRUE, one |-> FALSE, doomed |-> {},
   todo |-> {}, pairs |-> {}, removed |-> {}, raced |-> {}]

Start(d, n, one, doomed, todo) ==
  /\ deletes[d].pc = "new"
  /\ deletes' = [deletes EXCEPT ![d].pc = "remove", ![d].name = n, ![d].one = one,
                                ![d].doomed = doomed, ![d].todo = todo]
  /\ UNCHANGED <<products, jobs, tree, snapshots, refresher, reads, cache, history, upsets>>

DeleteFile(d, p, f) == /\ p \in DOMAIN products
                       /\ Start(d, products[p].name, TRUE, {f}, {p})

DeleteFailed(d, n)  == /\ Named(products, n) # {}
                       /\ Start(d, n, FALSE, Failing, Named(products, n))

DeleteTarget(d, n, s) == /\ Named(products, n) # {}
                         /\ Start(d, n, FALSE, {f \in Files : StemOf[f] = s}, Named(products, n))

\* raise_if_code_path_busy
Busy(root) == \E q \in jobs : RootOf[q] = root

\* Every checkout of the group is looked at before anything is removed; one that a job
\* uses refuses the request, one that was never cloned is left out.
DeleteCheck(d, p) ==
  /\ deletes[d].pc = "remove" /\ p \in deletes[d].todo
  /\ deletes' =
       IF RootOf[p] \notin checkouts
       THEN [deletes EXCEPT ![d].todo = @ \ {p},
                            ![d].pc = IF deletes[d].one THEN "failed" ELSE @]
       ELSE IF Busy(RootOf[p])
       THEN [deletes EXCEPT ![d].pc = "refused"]
       ELSE [deletes EXCEPT ![d].todo = @ \ {p}, ![d].pairs = @ \cup {p}]
  /\ UNCHANGED <<products, jobs, tree, snapshots, refresher, reads, cache, history, upsets>>

Unlink(d, p, files) ==
  /\ disk' = [disk EXCEPT ![RootOf[p]] = @ \ files]
  /\ deletes' = [deletes EXCEPT ![d].pairs = @ \ {p},
                                ![d].removed = @ \cup ({RootOf[p]} \X files)]

\* mutant: each checkout is looked at and cleaned in turn
RemoveAtOnce(d, p) ==
  /\ deletes[d].pc = "remove" /\ p \in deletes[d].pairs
  /\ Unlink(d, p, deletes[d].doomed \cap disk[RootOf[p]])
  /\ UNCHANGED <<products, jobs, checkouts, snapshots, refresher, reads, cache, history, upsets>>

\* The tests of one checkout; a single file that is not there ends the request.
DeleteRemove(d, p) ==
  /\ deletes[d].pc = "remove" /\ deletes[d].todo = {} /\ p \in deletes[d].pairs
  /\ LET files == deletes[d].doomed \cap disk[RootOf[p]]
     IN  IF deletes[d].one /\ files = {}
         THEN /\ deletes' = [deletes EXCEPT ![d].pc = "failed"]
              /\ UNCHANGED disk
         ELSE Unlink(d, p, files)
  /\ UNCHANGED <<products, jobs, checkouts, snapshots, refresher, reads, cache, history, upsets>>

\* An error while removing leaves the rest, and what is shown, as it is.
DeleteFails(d, p) ==
  /\ deletes[d].pc = "remove" /\ deletes[d].todo = {} /\ p \in deletes[d].pairs
  /\ Upset
  /\ \E files \in SUBSET (deletes[d].doomed \cap disk[RootOf[p]]) :
       disk' = [disk EXCEPT ![RootOf[p]] = @ \ files]
  /\ deletes' = [deletes EXCEPT ![d].pc = "failed"]
  /\ UNCHANGED <<products, jobs, checkouts, snapshots, refresher, reads, cache, history>>

\* mutant: the snapshot is left to the refresher
KeepSnapshot(d) ==
  /\ deletes[d].pc = "remove" /\ deletes[d].todo = {} /\ deletes[d].pairs = {}
  /\ deletes' = [deletes EXCEPT
                   ![d].pc = "clear",
                   ![d].raced = deletes[d].removed \cap PlacesOf(refresher.rows[deletes[d].name])]
  /\ UNCHANGED <<products, jobs, tree, snapshots, refresher, reads, cache, history, upsets>>

\* _invalidate_after_delete deletes the snapshot...
DeleteSnapshot(d) ==
  /\ deletes[d].pc = "remove" /\ deletes[d].todo = {} /\ deletes[d].pairs = {}
  /\ snapshots' = Restrict(snapshots, DOMAIN snapshots \ {deletes[d].name})
  /\ deletes' = [deletes EXCEPT
                   ![d].pc = "clear",
                   ![d].raced = deletes[d].removed \cap PlacesOf(refresher.rows[deletes[d].name])]
  /\ UNCHANGED <<products, jobs, tree, refresher, reads, cache, history, upsets>>

\* What summary requests to the main server have gathered under name n.
InAnswers(n) ==
  UNION {PlacesOf(reads[r].out[n].rows) :
           r \in {t \in DOMAIN reads : reads[t].key[1] = Main /\ n \in DOMAIN reads[t].out}}

\* mutant: only the snapshot is invalidated
KeepCache(d) ==
  /\ deletes[d].pc = "clear"
  /\ LET n == deletes[d].name
         removed == deletes[d].removed
     IN  /\ gone'  = [gone EXCEPT ![n] = @ \cup removed]
         /\ raced' = [raced EXCEPT ![n] =
                        @ \cup deletes[d].raced \cup (removed \cap InAnswers(n))]
  /\ deletes' = [deletes EXCEPT ![d].pc = "done"]
  /\ UNCHANGED <<products, jobs, tree, snapshots, refresher, reads, cache, upsets>>

\* ...and clears the summary cache of its own process.
ClearCache(d) ==
  /\ deletes[d].pc = "clear"
  /\ cache' = Restrict(cache, {x \in DOMAIN cache : x[1] # Main})
  /\ LET n == deletes[d].name
         removed == deletes[d].removed
     IN  /\ gone'  = [gone EXCEPT ![n] = @ \cup removed]
         /\ raced' = [raced EXCEPT ![n] =
                        @ \cup deletes[d].raced \cup (removed \cap InAnswers(n))]
  /\ deletes' = [deletes EXCEPT ![d].pc = "done"]
  /\ UNCHANGED <<products, jobs, tree, snapshots, refresher, reads, upsets>>

-----------------------------------------------------------------------------
(* Jobs and users *)

\* A job takes the checkout of its product, which it clones if need be, and writes or
\* removes tests there; without a code_path it works in a folder of its own.
JobStart(p) ==
  /\ Upset
  /\ p \in DOMAIN products \ jobs
  /\ jobs' = jobs \cup {p}
  /\ UNCHANGED <<products, tree, snapshots, refresher, reads, cache, deletes, history>>

JobClones(p) ==
  /\ p \in jobs
  /\ Clone(RootOf[p])
  /\ UNCHANGED <<products, jobs, snapshots, refresher, reads, cache, deletes, history, upsets>>

Forget(places, place) == places \ {place}

JobWrites(p, f) ==
  /\ p \in jobs /\ RootOf[p] \in checkouts
  /\ LET place == <<RootOf[p], f>>
     IN  /\ disk' = [disk EXCEPT ![RootOf[p]] = IF f \in @ THEN @ \ {f} ELSE @ \cup {f}]
         /\ gone'  = [n \in Names |-> Forget(gone[n], place)]
         /\ raced' = [n \in Names |-> Forget(raced[n], place)]
         /\ deletes' = [d \in Deleters |->
                          [deletes[d] EXCEPT !.removed = Forget(@, place),
                                             !.raced = Forget(@, place)]]
  /\ UNCHANGED <<products, jobs, checkouts, snapshots, refresher, reads, cache, upsets>>

JobEnd(p) ==
  /\ p \in jobs
  /\ jobs' = jobs \ {p}
  /\ UNCHANGED <<products, tree, snapshots, refresher, reads, cache, deletes, history, upsets>>

\* create_product and update_product: a new row, or any change to one, its name included.
EditProduct(p, n) ==
  /\ Upset
  /\ products' = [q \in DOMAIN products \cup {p} |->
                    IF q = p THEN [name |-> n, edit |-> upsets'] ELSE products[q]]
  /\ UNCHANGED <<jobs, tree, snapshots, refresher, reads, cache, deletes, history>>

\* delete_product, refused while the product has a job.
RemoveProduct(p) ==
  /\ Upset
  /\ p \in DOMAIN products \ jobs
  /\ products' = Restrict(products, DOMAIN products \ {p})
  /\ UNCHANGED <<jobs, tree, snapshots, refresher, reads, cache, deletes, history>>

-----------------------------------------------------------------------------
\* Products are registered, and there is no snapshot yet.
Init ==
  /\ products = [p \in ProductIds |-> [name |-> FirstName[p], edit |-> 0]]
  /\ jobs = {}
  /\ checkouts = Cloned
  /\ disk = [r \in Roots |-> IF r \in Cloned THEN Committed ELSE {}]
  /\ snapshots = <<>>
  /\ refresher = NoRefresh
  /\ reads = <<>>
  /\ cache = <<>>
  /\ deletes = [d \in Deleters |-> NewDeletion]
  /\ gone = [n \in Names |-> {}] /\ raced = [n \in Names |-> {}]
  /\ upsets = 0

Refresh == \/ RefreshBegin \/ RefreshLook \/ RefreshStore
           \/ \E p \in ProductIds : RefreshScan(p)

ReadStep(r) == \/ LookInCache(r) \/ LoadSnapshots(r) \/ Answer(r)
               \/ \E p \in ProductIds : ReadScan(r, p)

DeleteStep(d) == \/ \E p \in ProductIds : DeleteCheck(d, p) \/ DeleteRemove(d, p)
                 \/ DeleteSnapshot(d) \/ ClearCache(d)

NewRequest ==
  \/ \E r \in Readers, s \in Servers, project \in Projects : BeginSummary(r, s, project)
  \/ \E p \in ProductIds : GetDetail(p)
  \/ \E d \in Deleters :
       \/ \E p \in ProductIds, f \in Files : DeleteFile(d, p, f)
       \/ \E n \in Names : DeleteFailed(d, n)
       \/ \E n \in Names, s \in Stems : DeleteTarget(d, n, s)

ProductStep(p) ==
  \/ JobStart(p) \/ JobClones(p) \/ JobEnd(p) \/ RemoveProduct(p)
  \/ \E f \in Files : JobWrites(p, f)
  \/ \E n \in Names : EditProduct(p, n)

Next ==
  \/ Refresh \/ RefreshFails
  \/ \E r \in Readers : ReadStep(r)
  \/ \E d \in Deleters : DeleteStep(d)
  \/ \E d \in Deleters, p \in ProductIds : DeleteFails(d, p)
  \/ \E x \in Servers \X Projects : Expire(x)
  \/ NewRequest
  \/ \E p \in ProductIds : ProductStep(p)

Spec == Init /\ [][Next]_vars

\* The refresh loop goes on and time passes; requests may take forever.
Fairness == /\ WF_vars(Refresh)
            /\ \A x \in Servers \X Projects : WF_vars(Expire(x))

FairSpec == Spec /\ Fairness

-----------------------------------------------------------------------------
(* Properties *)

IsTable(t) == DOMAIN t \subseteq ProductIds /\ \A p \in DOMAIN t : t[p] \in Product

IsReport(e) ==
  /\ DOMAIN e \subseteq Names
  /\ \A n \in DOMAIN e : /\ DOMAIN e[n] = {"fingerprint", "rows"}
                         /\ e[n].rows \subseteq Row

TablesOK == /\ IsTable(products)
            /\ IsReport(snapshots)
            /\ jobs \subseteq DOMAIN products
            /\ upsets \in 0..MaxUpsets

\* What is not cloned holds no tests.
TreeOK == /\ checkouts \subseteq Roots
          /\ disk \in [Roots -> SUBSET Files]
          /\ \A r \in Roots \ checkouts : disk[r] = {}

RefresherOK == /\ DOMAIN refresher = {"pc", "table", "todo", "rows", "update"}
               /\ refresher.pc \in {"idle", "scan", "store"}
               /\ IsTable(refresher.table)
               /\ refresher.todo \subseteq DOMAIN refresher.table
               /\ refresher.rows \in [Names -> SUBSET Row]

ReadOK(q) == /\ DOMAIN q = {"pc", "key", "table", "todo", "out"}
             /\ q.pc \in {"cache", "load", "scan"}
             /\ q.key \in Servers \X Projects
             /\ IsTable(q.table) /\ IsReport(q.out)
             /\ q.todo \subseteq DOMAIN q.table
             /\ \A p \in q.todo : q.table[p].name \in DOMAIN q.out

ReadsOK == DOMAIN reads \subseteq Readers /\ \A r \in DOMAIN reads : ReadOK(reads[r])

CacheOK == /\ DOMAIN cache \subseteq Servers \X Projects
           /\ \A x \in DOMAIN cache : DOMAIN cache[x] = {"table", "out"} /\ IsReport(cache[x].out)

HistoryOK == /\ deletes \in [Deleters -> Deletion]
             /\ gone \in [Names -> SUBSET Place] /\ raced \in [Names -> SUBSET Place]

\* Every variable has its type, and a scan has a place for what it still has to find.
TypeOK == TablesOK /\ TreeOK /\ RefresherOK /\ ReadsOK /\ CacheOK /\ HistoryOK

\* What the main server shows under a name without a scan.
InSnapshot(n) == IF n \in DOMAIN snapshots THEN PlacesOf(snapshots[n].rows) ELSE {}

InCache(n) ==
  UNION {PlacesOf(cache[x].out[n].rows) :
           x \in {y \in DOMAIN cache : y[1] = Main /\ n \in DOMAIN cache[y].out}}

\* A deleted test comes back on the main server only if a refresh or a summary request had
\* read it before the deletion and published it after.
OnlyRacesShowDeleted ==
  \A n \in Names : (InSnapshot(n) \cup InCache(n)) \cap gone[n] \subseteq raced[n]

\* What a scan may find: tests on a disk, or any that a clone may bring.
Findable == {place \in Place : place[1] \in checkouts => place[2] \in disk[place[1]]}

Deleted == UNION ({gone[n] : n \in Names} \cup {deletes[d].removed : d \in Deleters})

\* What was deleted, and not written since, no scan can find.
DeletedIsOffDisk == Deleted \cap Findable = {}

\* The same for what is gathered and not yet published.
OnlyRacesCarryDeleted ==
  \A n \in Names :
    (PlacesOf(refresher.rows[n]) \cup InAnswers(n)) \cap gone[n] \subseteq raced[n]

\* Between the two halves of an invalidation, what the snapshot or the refresher still
\* know of the deleted tests was being refreshed when the first half ran.
HalfInvalidated ==
  \A d \in Deleters : deletes[d].pc = "clear" =>
    LET n == deletes[d].name
    IN  (InSnapshot(n) \cup PlacesOf(refresher.rows[n])) \cap deletes[d].removed
          \subseteq deletes[d].raced

\* The inductive invariant behind OnlyRacesShowDeleted.
DeletionsAreTracked ==
  /\ TypeOK
  /\ DeletedIsOffDisk
  /\ OnlyRacesShowDeleted
  /\ OnlyRacesCarryDeleted
  /\ HalfInvalidated

\* A deletion refused because of a running job has removed nothing, in no checkout of the
\* group (the 409 of delete_failed_tests and delete_target_tests).
RefusedDeletesNothing ==
  \A d \in Deleters : deletes[d].pc = "refused" => deletes[d].removed = {}

\* The inductive invariant behind it.
ChecksComeFirst ==
  \A d \in Deleters :
    deletes[d].pc \in {"new", "refused"} \/ deletes[d].todo # {} => deletes[d].removed = {}

\* What snapshots should say by the products and disks of now.
Truth ==
  [n \in NamesIn(products) |->
     [fingerprint |-> Fingerprint(products, n),
      rows |-> UNION {Listing(p) : p \in Named(products, n)}]]

IsCurrent ==
  /\ snapshots = Truth
  /\ \A x \in DOMAIN cache :
       cache[x].table = Of(products, NamesOf(x[2])) =>
         \A n \in DOMAIN cache[x].out : cache[x].out[n] = Truth[n]

\* When products, jobs and faults come to rest, snapshots and caches catch up, whatever
\* was deleted, renamed or refreshed meanwhile (_status_refresh_loop).
StatusCatchesUp == <>[](jobs = {}) => <>[]IsCurrent

=============================================================================
