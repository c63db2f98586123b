--------------------------- MODULE TestStatusProofs ---------------------------
(***************************************************************************)
(* That deleted tests stay hidden but for races, and that a refused        *)
(* deletion deletes nothing, for any products, checkouts, requests and     *)
(* servers.                                                                *)
(***************************************************************************)
EXTENDS TestStatus, TLAPS

\* The assumptions on the constants are used throughout.
USE StatusAssumption

\* What the refresher has found under name n.
Gathered(n) == PlacesOf(refresher.rows[n])

-----------------------------------------------------------------------------
(* Steps that delete nothing *)

\* What is shown was gathered before, and what is gathered was shown or found.
FlowsOn ==
  \A n \in Names :
    /\ InSnapshot(n)' \subseteq InSnapshot(n) \cup Gathered(n)
    /\ Gathered(n)' \subseteq Gathered(n) \cup Findable
    /\ InAnswers(n)' \subseteq InAnswers(n) \cup InSnapshot(n) \cup Findable
    /\ InCache(n)' \subseteq InCache(n) \cup InAnswers(n)

DeletionsStay ==
  /\ gone' = gone /\ raced' = raced
  /\ \A d \in Deleters :
       /\ deletes'[d].removed = deletes[d].removed
       /\ deletes'[d].pc = "clear" => /\ deletes[d].pc = "clear"
                                      /\ deletes'[d].name = deletes[d].name
                                      /\ deletes'[d].raced = deletes[d].raced

NothingReturns == Findable' \subseteq Findable

\* A step that only passes on what was read keeps track of deletions.
LEMMA QuietStep ==
  ASSUME DeletionsAreTracked, FlowsOn, DeletionsStay, NothingReturns
  PROVE  (DeletedIsOffDisk /\ OnlyRacesShowDeleted /\ OnlyRacesCarryDeleted
            /\ HalfInvalidated)'
<1>0. TypeOK /\ DeletedIsOffDisk /\ OnlyRacesShowDeleted /\ OnlyRacesCarryDeleted
        /\ HalfInvalidated
  BY DEF DeletionsAreTracked
<1>1. /\ \A n \in Names : gone[n] \cap Findable = {}
      /\ \A d \in Deleters : deletes[d].removed \cap Findable = {}
  BY <1>0 DEF DeletedIsOffDisk, Deleted
<1>2. DeletedIsOffDisk'
  BY <1>1 DEF DeletedIsOffDisk, Deleted, DeletionsStay, NothingReturns
<1>3. OnlyRacesShowDeleted'
  BY <1>0 DEF OnlyRacesShowDeleted, OnlyRacesCarryDeleted, Gathered, FlowsOn, DeletionsStay
<1>4. OnlyRacesCarryDeleted'
  BY <1>0, <1>1 DEF OnlyRacesShowDeleted, OnlyRacesCarryDeleted, Gathered, FlowsOn, DeletionsStay
<1>5. HalfInvalidated'
  <2> SUFFICES ASSUME NEW d \in Deleters, deletes'[d].pc = "clear"
               PROVE  (InSnapshot(deletes[d].name) \cup Gathered(deletes[d].name))'
                        \cap deletes'[d].removed \subseteq deletes'[d].raced
    BY DEF HalfInvalidated, Gathered
  <2> DEFINE n == deletes[d].name
  <2>1. /\ n \in Names /\ deletes'[d].name = n /\ deletes[d].pc = "clear"
        /\ deletes'[d].removed = deletes[d].removed /\ deletes'[d].raced = deletes[d].raced
    BY <1>0 DEF DeletionsStay, TypeOK, HistoryOK, Deletion
  <2>2. (InSnapshot(n) \cup Gathered(n)) \cap deletes[d].removed \subseteq deletes[d].raced
    BY <1>0, <2>1 DEF HalfInvalidated, Gathered
  <2>3. /\ InSnapshot(n)' \subseteq InSnapshot(n) \cup Gathered(n)
        /\ Gathered(n)' \subseteq Gathered(n) \cup Findable
    BY <2>1 DEF FlowsOn
  <2> QED BY <1>1, <2>1, <2>2, <2>3
<1> QED BY <1>2, <1>3, <1>4, <1>5

-----------------------------------------------------------------------------
(* What steps read *)

LEMMA ListingIsFindable ==
  ASSUME TreeOK, NEW p \in ProductIds
  PROVE  Listing(p) \subseteq Row /\ PlacesOf(Listing(p)) \subseteq Findable
<1>1. RootOf[p] \in Roots /\ disk[RootOf[p]] \subseteq Files
  BY DEF TreeOK
<1>2. Listing(p) \subseteq Row
  BY <1>1 DEF Listing, Row
<1>3. ASSUME NEW w \in Listing(p) PROVE <<RootOf[w.code], w.file>> \in Findable
  <2>1. PICK f \in IF RootOf[p] \in checkouts THEN disk[RootOf[p]] ELSE Committed :
          w = [code |-> p, file |-> f]
    BY DEF Listing
  <2>2. w.code = p /\ w.file = f /\ <<RootOf[p], f>> \in Place
    BY <1>1, <2>1 DEF Place
  <2>3. <<RootOf[p], f>>[1] = RootOf[p] /\ <<RootOf[p], f>>[2] = f
    OBVIOUS
  <2> QED BY <2>1, <2>2, <2>3 DEF Findable
<1>4. PlacesOf(Listing(p)) \subseteq Findable
  BY <1>3 DEF PlacesOf
<1> QED BY <1>2, <1>4

\* Cloning a checkout makes no test findable that was not.
LEMMA CloningKeeps ==
  ASSUME TreeOK, NEW r \in Roots, Clone(r)
  PROVE  TreeOK' /\ NothingReturns
<1>1. disk' \in [Roots -> SUBSET Files]
  BY DEF Clone, TreeOK
<1>2. TreeOK'
  BY <1>1 DEF Clone, TreeOK
<1>3. NothingReturns
  BY DEF Clone, TreeOK, NothingReturns, Findable, Place
<1> QED BY <1>2, <1>3

LEMMA ScansKeep ==
  ASSUME TreeOK, upsets \in 0..MaxUpsets,
         NEW p \in ProductIds, NEW rows, Scans(p, rows)
  PROVE  /\ TreeOK' /\ NothingReturns /\ upsets' \in 0..MaxUpsets
         /\ rows \subseteq Row /\ PlacesOf(rows) \subseteq Findable
<1>1. RootOf[p] \in Roots
  OBVIOUS
<1>2. CASE rows = Listing(p) /\ Clone(RootOf[p]) /\ UNCHANGED upsets
  BY <1>1, <1>2, ListingIsFindable, CloningKeeps
<1>3. CASE rows = {} /\ Upset /\ (UNCHANGED tree \/ Clone(RootOf[p]))
  <2>1. upsets' \in 0..MaxUpsets /\ rows \subseteq Row /\ PlacesOf(rows) \subseteq Findable
    BY <1>3 DEF Upset, PlacesOf
  <2>2. CASE UNCHANGED tree
    BY <2>1, <2>2 DEF tree, TreeOK, NothingReturns, Findable
  <2>3. CASE Clone(RootOf[p])
    BY <1>1, <2>1, <2>3, CloningKeeps
  <2> QED BY <1>3, <2>2, <2>3
<1> QED BY <1>2, <1>3 DEF Scans

LEMMA NamesOfTable ==
  ASSUME NEW t, IsTable(t)
  PROVE  NamesIn(t) \subseteq Names /\ DOMAIN t \subseteq ProductIds
  BY DEF IsTable, NamesIn, Product

LEMMA PlacesJoin ==
  ASSUME NEW A, NEW B PROVE PlacesOf(A \cup B) = PlacesOf(A) \cup PlacesOf(B)
  BY DEF PlacesOf

\* Steps that read and publish nothing.
LEMMA NothingFlows ==
  ASSUME UNCHANGED <<snapshots, refresher, reads, cache>>
  PROVE  FlowsOn
  BY DEF FlowsOn, InSnapshot, Gathered, InAnswers, InCache

LEMMA DeletionsUntouched ==
  ASSUME UNCHANGED <<deletes, history>>
  PROVE  DeletionsStay
  BY DEF DeletionsStay, history

LEMMA TreeUntouched ==
  ASSUME UNCHANGED tree
  PROVE  NothingReturns
  BY DEF NothingReturns, Findable, tree

\* What does not change keeps its type.
LEMMA TypesStay ==
  ASSUME TypeOK
  PROVE  /\ UNCHANGED <<products, snapshots, jobs, upsets>> => TablesOK'
         /\ UNCHANGED tree => TreeOK'
         /\ UNCHANGED refresher => RefresherOK'
         /\ UNCHANGED reads => ReadsOK'
         /\ UNCHANGED cache => CacheOK'
         /\ UNCHANGED <<deletes, history>> => HistoryOK'
<1>1. UNCHANGED <<products, snapshots, jobs, upsets>> => TablesOK'
  BY DEF TypeOK, TablesOK
<1>2. UNCHANGED tree => TreeOK'
  BY DEF TypeOK, TreeOK, tree
<1>3. UNCHANGED refresher => RefresherOK'
  BY DEF TypeOK, RefresherOK
<1>4. UNCHANGED reads => ReadsOK'
  BY DEF TypeOK, ReadsOK
<1>5. UNCHANGED cache => CacheOK'
  BY DEF TypeOK, CacheOK
<1>6. UNCHANGED <<deletes, history>> => HistoryOK'
  BY DEF TypeOK, HistoryOK, history
<1> QED BY <1>1, <1>2, <1>3, <1>4, <1>5, <1>6

-----------------------------------------------------------------------------
(* refresh_snapshots *)

LEMMA NoRefreshType ==
  ASSUME refresher' = NoRefresh PROVE RefresherOK' /\ \A n \in Names : Gathered(n)' = {}
  BY DEF NoRefresh, RefresherOK, IsTable, Gathered, PlacesOf

LEMMA RefresherKeeps ==
  ASSUME DeletionsAreTracked, Refresh \/ RefreshFails
  PROVE  DeletionsAreTracked'
<1>0. TypeOK
  BY DEF DeletionsAreTracked
<1>1. CASE RefreshBegin
  <2>1. RefresherOK' /\ \A n \in Names : Gathered(n)' = {}
    BY <1>0, <1>1
       DEF RefreshBegin, NoRefresh, TypeOK, TablesOK, RefresherOK, IsTable, Gathered, PlacesOf
  <2>2. FlowsOn
    BY <1>1, <2>1 DEF RefreshBegin, FlowsOn, InSnapshot, InAnswers, InCache
  <2>3. TypeOK'
    BY <1>0, <1>1, <2>1, TypesStay DEF RefreshBegin, TypeOK
  <2> QED BY <1>1, <2>2, <2>3, QuietStep, DeletionsUntouched, TreeUntouched
          DEF RefreshBegin, DeletionsAreTracked
<1>2. ASSUME NEW p \in ProductIds, RefreshScan(p) PROVE DeletionsAreTracked'
  <2>1. PICK rows \in {Listing(p), {}} :
          /\ Scans(p, rows)
          /\ refresher' = [refresher EXCEPT !.todo = @ \ {p},
                                            !.rows[refresher.table[p].name] = @ \cup rows]
    BY <1>2 DEF RefreshScan
  <2>2. /\ TreeOK' /\ NothingReturns /\ upsets' \in 0..MaxUpsets
        /\ rows \subseteq Row /\ PlacesOf(rows) \subseteq Findable
    BY <1>0, <1>2, <2>1, ScansKeep DEF RefreshScan, TypeOK, TablesOK
  <2> DEFINE n == refresher.table[p].name
  <2>3. n \in Names
    BY <1>0, <1>2 DEF RefreshScan, TypeOK, RefresherOK, IsTable, Product
  <2>4. /\ DOMAIN refresher' = DOMAIN refresher
        /\ refresher'.pc = refresher.pc /\ refresher'.table = refresher.table
        /\ refresher'.todo = refresher.todo \ {p}
        /\ refresher'.rows = [refresher.rows EXCEPT ![n] = @ \cup rows]
    BY <1>0, <2>1 DEF TypeOK, RefresherOK
  <2>5. RefresherOK'
    BY <1>0, <2>2, <2>3, <2>4 DEF TypeOK, RefresherOK
  <2>6. \A m \in Names : Gathered(m)' \subseteq Gathered(m) \cup Findable
    BY <1>0, <2>2, <2>3, <2>4, PlacesJoin DEF TypeOK, RefresherOK, Gathered
  <2>7. FlowsOn
    BY <1>2, <2>6 DEF RefreshScan, FlowsOn, InSnapshot, InAnswers, InCache
  <2>8. TypeOK'
    BY <1>0, <1>2, <2>2, <2>5, TypesStay DEF RefreshScan, TypeOK, TablesOK
  <2> QED BY <1>2, <2>2, <2>7, <2>8, QuietStep, DeletionsUntouched
          DEF RefreshScan, DeletionsAreTracked
<1>3. CASE RefreshLook
  <2>1. PICK u : refresher' = [refresher EXCEPT !.pc = "store", !.update = u]
    BY <1>3 DEF RefreshLook
  <2>2. RefresherOK' /\ refresher'.rows = refresher.rows
    BY <1>0, <2>1 DEF TypeOK, RefresherOK
  <2>3. FlowsOn
    BY <1>3, <2>2 DEF RefreshLook, FlowsOn, InSnapshot, InAnswers, InCache, Gathered
  <2>4. TypeOK'
    BY <1>0, <1>3, <2>2, TypesStay DEF RefreshLook, TypeOK
  <2> QED BY <1>3, <2>3, <2>4, QuietStep, DeletionsUntouched, TreeUntouched
          DEF RefreshLook, DeletionsAreTracked
<1>4. CASE RefreshStore
  <2> DEFINE S == [n \in NamesIn(refresher.table) |->
                     [fingerprint |-> Fingerprint(refresher.table, n),
                      rows |-> refresher.rows[n]]]
  <2>1. snapshots' = S \/ snapshots' = snapshots
    BY <1>4 DEF RefreshStore
  <2>2. IsReport(S)
    BY <1>0, NamesOfTable DEF TypeOK, RefresherOK, IsReport
  <2>3. IsReport(snapshots')
    BY <1>0, <2>1, <2>2 DEF TypeOK, TablesOK
  <2>4. \A n \in Names : InSnapshot(n)' \subseteq InSnapshot(n) \cup Gathered(n)
    BY <2>1 DEF InSnapshot, Gathered
  <2>5. RefresherOK' /\ \A n \in Names : Gathered(n)' = {}
    BY <1>4, NoRefreshType DEF RefreshStore
  <2>6. FlowsOn
    BY <1>4, <2>4, <2>5 DEF RefreshStore, FlowsOn, InAnswers, InCache
  <2>7. TypeOK'
    BY <1>0, <1>4, <2>3, <2>5, TypesStay DEF RefreshStore, TypeOK, TablesOK
  <2> QED BY <1>4, <2>6, <2>7, QuietStep, DeletionsUntouched, TreeUntouched
          DEF RefreshStore, DeletionsAreTracked
<1>5. CASE RefreshFails
  <2>1. RefresherOK' /\ \A n \in Names : Gathered(n)' = {}
    BY <1>5, NoRefreshType DEF RefreshFails
  <2>2. FlowsOn
    BY <1>5, <2>1 DEF RefreshFails, FlowsOn, InSnapshot, InAnswers, InCache
  <2>3. upsets' \in 0..MaxUpsets
    BY <1>0, <1>5 DEF RefreshFails, Upset, TypeOK, TablesOK
  <2>4. TypeOK'
    BY <1>0, <1>5, <2>1, <2>3, TypesStay DEF RefreshFails, TypeOK, TablesOK
  <2> QED BY <1>5, <2>2, <2>4, QuietStep, DeletionsUntouched, TreeUntouched
          DEF RefreshFails, DeletionsAreTracked
<1> QED BY <1>1, <1>2, <1>3, <1>4, <1>5 DEF Refresh

-----------------------------------------------------------------------------
(* Requests that read *)

\* A thread that is gone carries nothing.
LEMMA LeaveKeeps ==
  ASSUME ReadsOK, NEW r, Leave(r)
  PROVE  ReadsOK' /\ \A n \in Names : InAnswers(n)' \subseteq InAnswers(n)
<1>1. DOMAIN reads' \subseteq DOMAIN reads /\ \A t \in DOMAIN reads' : reads'[t] = reads[t]
  BY DEF Leave, Restrict
<1>2. ReadsOK'
  BY <1>1 DEF ReadsOK
<1>3. \A n \in Names : InAnswers(n)' \subseteq InAnswers(n)
  BY <1>1 DEF InAnswers
<1> QED BY <1>2, <1>3

\* A thread that reads on carries what it did and what it read.
LEMMA ReadOnKeeps ==
  ASSUME ReadsOK, NEW r \in Readers, NEW q, ReadOK(q),
         DOMAIN reads' = DOMAIN reads \cup {r},
         \A t \in DOMAIN reads' : reads'[t] = IF t = r THEN q ELSE reads[t],
         \A n \in DOMAIN q.out : q.key[1] = Main =>
           PlacesOf(q.out[n].rows) \subseteq InAnswers(n) \cup InSnapshot(n) \cup Findable
  PROVE  /\ ReadsOK'
         /\ \A n \in Names : InAnswers(n)' \subseteq InAnswers(n) \cup InSnapshot(n) \cup Findable
<1>1. ReadsOK'
  BY DEF ReadsOK
<1>2. ASSUME NEW n \in Names, NEW t \in DOMAIN reads', reads'[t].key[1] = Main,
             n \in DOMAIN reads'[t].out
      PROVE  PlacesOf(reads'[t].out[n].rows)
               \subseteq InAnswers(n) \cup InSnapshot(n) \cup Findable
  <2>1. CASE t = r
    BY <1>2, <2>1
  <2>2. CASE t # r
    BY <1>2, <2>2 DEF InAnswers
  <2> QED BY <2>1, <2>2
<1>3. ASSUME NEW n \in Names
      PROVE  InAnswers(n)' \subseteq InAnswers(n) \cup InSnapshot(n) \cup Findable
  BY <1>2 DEF InAnswers
<1> QED BY <1>1, <1>3

\* A step of one thread that changes at most what that thread carries.
LEMMA ReadingKeeps ==
  ASSUME DeletionsAreTracked, ReadsOK', NothingReturns, TreeOK', upsets' \in 0..MaxUpsets,
         \A n \in Names : InAnswers(n)' \subseteq InAnswers(n) \cup InSnapshot(n) \cup Findable,
         UNCHANGED <<products, jobs, snapshots, refresher, cache, deletes, history>>
  PROVE  DeletionsAreTracked'
<1>1. FlowsOn
  BY DEF FlowsOn, InSnapshot, Gathered, InCache
<1>2. TypeOK'
  BY TypesStay DEF DeletionsAreTracked, TypeOK, TablesOK
<1> QED BY <1>1, <1>2, QuietStep, DeletionsUntouched DEF DeletionsAreTracked

LEMMA BeginSummaryKeeps ==
  ASSUME DeletionsAreTracked, NEW r \in Readers, NEW s \in Servers, NEW j \in Projects,
         BeginSummary(r, s, j)
  PROVE  DeletionsAreTracked'
<1>0. TypeOK
  BY DEF DeletionsAreTracked
<1> DEFINE q == [pc |-> "cache", key |-> <<s, j>>, table |-> Of(products, NamesOf(j)),
                 todo |-> {}, out |-> <<>>]
<1>1. IsTable(Of(products, NamesOf(j)))
  BY <1>0 DEF TypeOK, TablesOK, IsTable, Of, Restrict
<1>2. ReadOK(q)
  BY <1>1 DEF ReadOK, IsReport
<1>3. /\ DOMAIN reads' = DOMAIN reads \cup {r}
      /\ \A t \in DOMAIN reads' : reads'[t] = IF t = r THEN q ELSE reads[t]
  BY DEF BeginSummary
<1>4. DOMAIN q.out = {}
  OBVIOUS
<1>5. /\ ReadsOK'
      /\ \A n \in Names : InAnswers(n)' \subseteq InAnswers(n) \cup InSnapshot(n) \cup Findable
  <2> HIDE DEF q
  <2> QED BY <1>0, <1>2, <1>3, <1>4, ReadOnKeeps DEF TypeOK
<1>6. TreeOK' /\ NothingReturns /\ upsets' \in 0..MaxUpsets
  BY <1>0, TypesStay, TreeUntouched DEF BeginSummary, TypeOK, TablesOK
<1> QED BY <1>5, <1>6, ReadingKeeps DEF BeginSummary

\* What a thread carries, seen from the thread.
LEMMA Carried ==
  ASSUME NEW r \in DOMAIN reads, reads[r].key[1] = Main, NEW n \in DOMAIN reads[r].out
  PROVE  PlacesOf(reads[r].out[n].rows) \subseteq InAnswers(n)
  BY DEF InAnswers

LEMMA LookInCacheKeeps ==
  ASSUME DeletionsAreTracked, NEW r \in Readers, LookInCache(r)
  PROVE  DeletionsAreTracked'
<1>0. TypeOK
  BY DEF DeletionsAreTracked
<1>1. TreeOK' /\ NothingReturns /\ upsets' \in 0..MaxUpsets
  BY <1>0, TypesStay, TreeUntouched DEF LookInCache, TypeOK, TablesOK
<1>2. CASE Leave(r)
  BY <1>0, <1>1, <1>2, LeaveKeeps, ReadingKeeps DEF LookInCache, TypeOK
<1>3. CASE reads' = [reads EXCEPT ![r].pc = "load"]
  <2> DEFINE q == [reads[r] EXCEPT !.pc = "load"]
  <2>1. r \in DOMAIN reads /\ ReadOK(reads[r])
    BY <1>0 DEF LookInCache, TypeOK, ReadsOK
  <2>2. ReadOK(q) /\ q.out = reads[r].out /\ q.key = reads[r].key
    BY <2>1 DEF ReadOK
  <2>3. /\ DOMAIN reads' = DOMAIN reads \cup {r}
        /\ \A t \in DOMAIN reads' : reads'[t] = IF t = r THEN q ELSE reads[t]
    BY <1>3, <2>1
  <2>4. \A n \in DOMAIN q.out : q.key[1] = Main => PlacesOf(q.out[n].rows) \subseteq InAnswers(n)
    BY <2>1, <2>2, Carried
  <2>5. /\ ReadsOK'
        /\ \A n \in Names : InAnswers(n)' \subseteq InAnswers(n) \cup InSnapshot(n) \cup Findable
    <3> HIDE DEF q
    <3> QED BY <1>0, <2>2, <2>3, <2>4, ReadOnKeeps DEF TypeOK
  <2> QED BY <1>1, <2>5, ReadingKeeps DEF LookInCache
<1> QED BY <1>2, <1>3 DEF LookInCache

LEMMA LoadSnapshotsKeeps ==
  ASSUME DeletionsAreTracked, NEW r \in Readers, LoadSnapshots(r)
  PROVE  DeletionsAreTracked'
<1>0. TypeOK
  BY DEF DeletionsAreTracked
<1> DEFINE table == reads[r].table
           out == [n \in NamesIn(table) |->
                     IF n \in DOMAIN snapshots THEN snapshots[n]
                     ELSE [fingerprint |-> Fingerprint(table, n), rows |-> {}]]
           todo == {p \in DOMAIN table : table[p].name \notin DOMAIN snapshots}
           q == [reads[r] EXCEPT !.pc = "scan", !.out = out, !.todo = todo]
<1>1. r \in DOMAIN reads /\ ReadOK(reads[r])
  BY <1>0 DEF LoadSnapshots, TypeOK, ReadsOK
<1>2. reads' = [reads EXCEPT ![r] = q]
  BY DEF LoadSnapshots
<1>3. /\ DOMAIN reads' = DOMAIN reads \cup {r}
      /\ \A t \in DOMAIN reads' : reads'[t] = IF t = r THEN q ELSE reads[t]
  BY <1>1, <1>2
<1>4. /\ DOMAIN q = DOMAIN reads[r] /\ q.pc = "scan" /\ q.key = reads[r].key
      /\ q.table = table /\ q.out = out /\ q.todo = todo
  BY <1>1 DEF ReadOK
<1>5. IsTable(table) /\ NamesIn(table) \subseteq Names
  BY <1>1, NamesOfTable DEF ReadOK
<1>6. IsReport(out)
  BY <1>0, <1>5 DEF TypeOK, TablesOK, IsReport
<1>7. todo \subseteq DOMAIN table /\ \A p \in todo : table[p].name \in DOMAIN out
  BY DEF NamesIn
<1>8. ReadOK(q)
  <2> HIDE DEF q, out, todo, table
  <2> QED BY <1>1, <1>4, <1>5, <1>6, <1>7 DEF ReadOK, table
<1>9. \A n \in DOMAIN out : PlacesOf(out[n].rows) \subseteq InSnapshot(n)
  BY DEF InSnapshot, PlacesOf
<1>10. /\ ReadsOK'
       /\ \A n \in Names : InAnswers(n)' \subseteq InAnswers(n) \cup InSnapshot(n) \cup Findable
  <2> HIDE DEF q, out, todo, table
  <2> QED BY <1>0, <1>3, <1>4, <1>8, <1>9, ReadOnKeeps DEF TypeOK
<1>11. TreeOK' /\ NothingReturns /\ upsets' \in 0..MaxUpsets
  BY <1>0, TypesStay, TreeUntouched DEF LoadSnapshots, TypeOK, TablesOK
<1> QED BY <1>10, <1>11, ReadingKeeps DEF LoadSnapshots

LEMMA ReadScanKeeps ==
  ASSUME DeletionsAreTracked, NEW r \in Readers, NEW p \in ProductIds, ReadScan(r, p)
  PROVE  DeletionsAreTracked'
<1>0. TypeOK
  BY DEF DeletionsAreTracked
<1> DEFINE n == reads[r].table[p].name
<1>1. r \in DOMAIN reads /\ ReadOK(reads[r]) /\ p \in reads[r].todo
  BY <1>0 DEF ReadScan, TypeOK, ReadsOK
<1>2. PICK rows \in {Listing(p), {}} :
        /\ Scans(p, rows)
        /\ reads' = [reads EXCEPT ![r].todo = @ \ {p},
                                  ![r].out[reads[r].table[p].name].rows = @ \cup rows]
  BY DEF ReadScan
<1>3. /\ TreeOK' /\ NothingReturns /\ upsets' \in 0..MaxUpsets
      /\ rows \subseteq Row /\ PlacesOf(rows) \subseteq Findable
  BY <1>0, <1>2, ScansKeep DEF ReadScan, TypeOK, TablesOK
<1> DEFINE out == [reads[r].out EXCEPT ![n].rows = @ \cup rows]
           q == [reads[r] EXCEPT !.todo = @ \ {p}, !.out = out]
<1>4. /\ DOMAIN reads' = DOMAIN reads \cup {r}
      /\ \A t \in DOMAIN reads' : reads'[t] = IF t = r THEN q ELSE reads[t]
  BY <1>1, <1>2 DEF ReadOK
<1>5. /\ DOMAIN q = DOMAIN reads[r] /\ q.pc = reads[r].pc /\ q.key = reads[r].key
      /\ q.table = reads[r].table /\ q.out = out /\ q.todo = reads[r].todo \ {p}
  BY <1>1 DEF ReadOK
<1>6. n \in DOMAIN reads[r].out /\ IsReport(reads[r].out)
  BY <1>1 DEF ReadOK
<1>7. /\ DOMAIN out = DOMAIN reads[r].out
      /\ \A m \in DOMAIN out :
           /\ DOMAIN out[m] = {"fingerprint", "rows"}
           /\ out[m].rows = IF m = n THEN reads[r].out[n].rows \cup rows ELSE reads[r].out[m].rows
  BY <1>6 DEF IsReport
<1>8. IsReport(out)
  <2> HIDE DEF out
  <2> QED BY <1>3, <1>6, <1>7 DEF IsReport
<1>9. ReadOK(q)
  <2> HIDE DEF q, out
  <2> QED BY <1>1, <1>5, <1>7, <1>8 DEF ReadOK
<1>10. ASSUME reads[r].key[1] = Main, NEW m \in DOMAIN out
       PROVE  PlacesOf(out[m].rows) \subseteq InAnswers(m) \cup Findable
  <2> HIDE DEF out
  <2>1. PlacesOf(reads[r].out[m].rows) \subseteq InAnswers(m)
    BY <1>1, <1>7, <1>10, Carried
  <2> QED BY <1>3, <1>7, <2>1, PlacesJoin
<1>11. /\ ReadsOK'
       /\ \A m \in Names : InAnswers(m)' \subseteq InAnswers(m) \cup InSnapshot(m) \cup Findable
  <2> HIDE DEF q, out
  <2> QED BY <1>0, <1>4, <1>5, <1>9, <1>10, ReadOnKeeps DEF TypeOK
<1> QED BY <1>3, <1>11, ReadingKeeps DEF ReadScan

LEMMA AnswerKeeps ==
  ASSUME DeletionsAreTracked, NEW r \in Readers, Answer(r)
  PROVE  DeletionsAreTracked'
<1>0. TypeOK
  BY DEF DeletionsAreTracked
<1> DEFINE x == reads[r].key
<1>1. r \in DOMAIN reads /\ ReadOK(reads[r])
  BY <1>0 DEF Answer, TypeOK, ReadsOK
<1>2. /\ DOMAIN cache' = DOMAIN cache \cup {x}
      /\ \A y \in DOMAIN cache' :
           cache'[y] = IF y = x THEN [table |-> reads[r].table, out |-> reads[r].out] ELSE cache[y]
  BY DEF Answer
<1>3. CacheOK'
  BY <1>0, <1>1, <1>2 DEF TypeOK, CacheOK, ReadOK
<1>4. ReadsOK' /\ \A n \in Names : InAnswers(n)' \subseteq InAnswers(n)
  BY <1>0, LeaveKeeps DEF Answer, TypeOK
<1>5. ASSUME NEW n \in Names PROVE InCache(n)' \subseteq InCache(n) \cup InAnswers(n)
  <2>1. ASSUME NEW y \in DOMAIN cache', y[1] = Main, n \in DOMAIN cache'[y].out
        PROVE  PlacesOf(cache'[y].out[n].rows) \subseteq InCache(n) \cup InAnswers(n)
    <3>1. CASE y = x
      BY <1>1, <1>2, <2>1, <3>1, Carried
    <3>2. CASE y # x
      BY <1>2, <2>1, <3>2 DEF InCache
    <3> QED BY <3>1, <3>2
  <2> QED BY <2>1 DEF InCache
<1>6. FlowsOn
  BY <1>4, <1>5 DEF Answer, FlowsOn, InSnapshot, Gathered
<1>7. TypeOK'
  BY <1>0, <1>3, <1>4, TypesStay DEF Answer, TypeOK
<1> QED BY <1>6, <1>7, QuietStep, DeletionsUntouched, TreeUntouched
        DEF Answer, DeletionsAreTracked

LEMMA GetDetailKeeps ==
  ASSUME DeletionsAreTracked, NEW p \in ProductIds, GetDetail(p)
  PROVE  DeletionsAreTracked'
<1>1. PICK rows : Scans(p, rows)
  BY DEF GetDetail
<1>2. TreeOK' /\ NothingReturns /\ upsets' \in 0..MaxUpsets
  BY <1>1, ScansKeep DEF GetDetail, DeletionsAreTracked, TypeOK, TablesOK
<1>3. ReadsOK' /\ \A n \in Names : InAnswers(n)' = InAnswers(n)
  BY TypesStay DEF GetDetail, DeletionsAreTracked, InAnswers, TypeOK
<1> QED BY <1>2, <1>3, ReadingKeeps DEF GetDetail

LEMMA ExpireKeeps ==
  ASSUME DeletionsAreTracked, NEW x, Expire(x)
  PROVE  DeletionsAreTracked'
<1>0. TypeOK
  BY DEF DeletionsAreTracked
<1>1. DOMAIN cache' \subseteq DOMAIN cache /\ \A y \in DOMAIN cache' : cache'[y] = cache[y]
  BY DEF Expire, Restrict
<1>2. CacheOK' /\ \A n \in Names : InCache(n)' \subseteq InCache(n)
  BY <1>0, <1>1 DEF TypeOK, CacheOK, InCache
<1>3. FlowsOn
  BY <1>2 DEF Expire, FlowsOn, InSnapshot, Gathered, InAnswers
<1>4. TypeOK'
  BY <1>0, <1>2, TypesStay DEF Expire, TypeOK
<1> QED BY <1>3, <1>4, QuietStep, DeletionsUntouched, TreeUntouched
        DEF Expire, DeletionsAreTracked

-----------------------------------------------------------------------------
(* Deletions *)

\* A step of deletion d that gets on and changes nothing else.
LEMMA DeletionGetsOn ==
  ASSUME DeletionsAreTracked, NEW d \in Deleters, NEW e \in Deletion,
         deletes' = [deletes EXCEPT ![d] = e],
         e.pc # "clear", e.removed = deletes[d].removed,
         UNCHANGED <<products, jobs, checkouts, snapshots, refresher, reads, cache, history>>,
         TreeOK', NothingReturns, upsets' \in 0..MaxUpsets
  PROVE  DeletionsAreTracked'
<1>0. TypeOK
  BY DEF DeletionsAreTracked
<1>1. HistoryOK'
  BY <1>0 DEF TypeOK, HistoryOK, history
<1>2. DeletionsStay
  BY <1>0 DEF DeletionsStay, history, TypeOK, HistoryOK
<1>3. TypeOK'
  BY <1>0, <1>1, TypesStay DEF TypeOK, TablesOK
<1> QED BY <1>2, <1>3, QuietStep, NothingFlows DEF DeletionsAreTracked

LEMMA StartKeeps ==
  ASSUME DeletionsAreTracked, NEW d \in Deleters, NEW n \in Names, NEW one \in BOOLEAN,
         NEW doomed \in SUBSET Files, NEW todo \in SUBSET ProductIds,
         Start(d, n, one, doomed, todo)
  PROVE  DeletionsAreTracked'
<1>0. TypeOK
  BY DEF DeletionsAreTracked
<1> DEFINE e == [deletes[d] EXCEPT !.pc = "remove", !.name = n, !.one = one,
                                   !.doomed = doomed, !.todo = todo]
<1>1. deletes' = [deletes EXCEPT ![d] = e]
  BY <1>0 DEF Start, TypeOK, HistoryOK
<1>2. deletes[d] \in Deletion
  BY <1>0 DEF TypeOK, HistoryOK
<1>3. e \in Deletion /\ e.pc = "remove" /\ e.removed = deletes[d].removed
  BY <1>2 DEF Deletion
<1>4. TreeOK' /\ NothingReturns /\ upsets' \in 0..MaxUpsets
  BY <1>0, TypesStay, TreeUntouched DEF Start, TypeOK, TablesOK
<1>5. UNCHANGED <<products, jobs, checkouts, snapshots, refresher, reads, cache, history>>
  BY DEF Start, tree
<1> HIDE DEF e
<1> QED BY <1>1, <1>3, <1>4, <1>5, DeletionGetsOn

LEMMA DeleteCheckKeeps ==
  ASSUME DeletionsAreTracked, NEW d \in Deleters, NEW p \in ProductIds, DeleteCheck(d, p)
  PROVE  DeletionsAreTracked'
<1>0. TypeOK
  BY DEF DeletionsAreTracked
<1>1. deletes[d] \in Deletion /\ deletes[d].pc = "remove"
  BY <1>0 DEF DeleteCheck, TypeOK, HistoryOK
<1>2. PICK e \in Deletion : /\ deletes' = [deletes EXCEPT ![d] = e]
                            /\ e.pc # "clear" /\ e.removed = deletes[d].removed
  <2>1. CASE RootOf[p] \notin checkouts
    <3> DEFINE e == [deletes[d] EXCEPT !.todo = @ \ {p},
                                       !.pc = IF deletes[d].one THEN "failed" ELSE @]
    <3>1. deletes' = [deletes EXCEPT ![d] = e]
      BY <1>0, <2>1 DEF DeleteCheck, TypeOK, HistoryOK
    <3>2. e \in Deletion /\ e.pc # "clear" /\ e.removed = deletes[d].removed
      BY <1>1 DEF Deletion
    <3> QED BY <3>1, <3>2
  <2>2. CASE RootOf[p] \in checkouts /\ Busy(RootOf[p])
    <3> DEFINE e == [deletes[d] EXCEPT !.pc = "refused"]
    <3>1. deletes' = [deletes EXCEPT ![d] = e]
      BY <1>0, <2>2 DEF DeleteCheck, TypeOK, HistoryOK
    <3>2. e \in Deletion /\ e.pc # "clear" /\ e.removed = deletes[d].removed
      BY <1>1 DEF Deletion
    <3> QED BY <3>1, <3>2
  <2>3. CASE RootOf[p] \in checkouts /\ ~Busy(RootOf[p])
    <3> DEFINE e == [deletes[d] EXCEPT !.todo = @ \ {p}, !.pairs = @ \cup {p}]
    <3>1. deletes' = [deletes EXCEPT ![d] = e]
      BY <1>0, <2>3 DEF DeleteCheck, TypeOK, HistoryOK
    <3>2. e \in Deletion /\ e.pc # "clear" /\ e.removed = deletes[d].removed
      BY <1>1 DEF Deletion
    <3> QED BY <3>1, <3>2
  <2> QED BY <2>1, <2>2, <2>3
<1>3. TreeOK' /\ NothingReturns /\ upsets' \in 0..MaxUpsets
  BY <1>0, TypesStay, TreeUntouched DEF DeleteCheck, TypeOK, TablesOK
<1>4. UNCHANGED <<products, jobs, checkouts, snapshots, refresher, reads, cache, history>>
  BY DEF DeleteCheck, tree
<1> QED BY <1>2, <1>3, <1>4, DeletionGetsOn

\* Removing tests from a checkout makes none findable.
LEMMA RemovingKeeps ==
  ASSUME TreeOK, NEW r \in Roots, NEW files, disk' = [disk EXCEPT ![r] = @ \ files],
         UNCHANGED checkouts
  PROVE  TreeOK' /\ NothingReturns
  BY DEF TreeOK, NothingReturns, Findable, Place

\* What was removed is not findable: a checkout that held tests is cloned.
LEMMA RemovedIsNotFindable ==
  ASSUME TreeOK, NEW r \in Roots, NEW files, files \subseteq disk[r],
         disk' = [disk EXCEPT ![r] = @ \ files], UNCHANGED checkouts
  PROVE  ({r} \X files) \subseteq Place /\ ({r} \X files) \cap Findable' = {}
<1>1. files \subseteq Files
  BY DEF TreeOK
<1>2. ASSUME NEW f \in files PROVE <<r, f>> \in Place /\ <<r, f>> \notin Findable'
  <2>1. r \in checkouts' /\ f \notin disk'[r]
    BY DEF TreeOK
  <2>2. <<r, f>>[1] = r /\ <<r, f>>[2] = f
    OBVIOUS
  <2> QED BY <1>1, <2>1, <2>2 DEF Findable, Place
<1> QED BY <1>2

LEMMA DeleteRemoveKeeps ==
  ASSUME DeletionsAreTracked, NEW d \in Deleters, NEW p \in ProductIds, DeleteRemove(d, p)
  PROVE  DeletionsAreTracked'
<1>0. TypeOK /\ DeletedIsOffDisk /\ OnlyRacesShowDeleted /\ OnlyRacesCarryDeleted
        /\ HalfInvalidated
  BY DEF DeletionsAreTracked
<1>1. deletes[d] \in Deletion /\ deletes[d].pc = "remove" /\ RootOf[p] \in Roots
  BY <1>0 DEF DeleteRemove, TypeOK, HistoryOK
<1>2. UNCHANGED <<products, jobs, checkouts, snapshots, refresher, reads, cache, history>>
        /\ upsets' \in 0..MaxUpsets
  BY <1>0 DEF DeleteRemove, TypeOK, TablesOK
<1> DEFINE files == deletes[d].doomed \cap disk[RootOf[p]]
<1>3. CASE deletes' = [deletes EXCEPT ![d].pc = "failed"] /\ UNCHANGED disk
  <2> DEFINE e == [deletes[d] EXCEPT !.pc = "failed"]
  <2>1. deletes' = [deletes EXCEPT ![d] = e]
    BY <1>3
  <2>2. e \in Deletion /\ e.pc # "clear" /\ e.removed = deletes[d].removed
    BY <1>1 DEF Deletion
  <2>3. TreeOK' /\ NothingReturns
    BY <1>0, <1>2, <1>3, TypesStay, TreeUntouched DEF tree
  <2> HIDE DEF e
  <2> QED BY <1>2, <2>1, <2>2, <2>3, DeletionGetsOn
<1>4. CASE Unlink(d, p, files)
  <2> DEFINE new == {RootOf[p]} \X files
             e == [deletes[d] EXCEPT !.pairs = @ \ {p}, !.removed = @ \cup new]
  <2>1. /\ disk' = [disk EXCEPT ![RootOf[p]] = @ \ files]
        /\ deletes' = [deletes EXCEPT ![d] = e]
    BY <1>0, <1>4 DEF Unlink, TypeOK, HistoryOK
  <2>2. TreeOK' /\ NothingReturns /\ new \subseteq Place /\ new \cap Findable' = {}
    <3>1. files \subseteq disk[RootOf[p]]
      OBVIOUS
    <3> HIDE DEF files
    <3>2. TreeOK' /\ NothingReturns
      BY <1>0, <1>1, <1>2, <2>1, RemovingKeeps DEF TypeOK
    <3>3. new \subseteq Place /\ new \cap Findable' = {}
      BY <1>0, <1>1, <1>2, <2>1, <3>1, RemovedIsNotFindable DEF TypeOK
    <3> QED BY <3>2, <3>3
  <2>3. /\ e \in Deletion /\ e.pc = "remove"
        /\ e.removed = deletes[d].removed \cup new
    <3> HIDE DEF new
    <3> QED BY <1>1, <2>2 DEF Deletion
  <2> HIDE DEF new, e
  <2>4. \A c \in Deleters : deletes'[c] = IF c = d THEN e ELSE deletes[c]
    BY <1>0, <2>1 DEF TypeOK, HistoryOK
  <2>5. HistoryOK'
    BY <1>0, <1>2, <2>1, <2>3 DEF TypeOK, HistoryOK, history
  <2>6. TypeOK'
    BY <1>0, <1>2, <2>2, <2>5, TypesStay DEF TypeOK, TablesOK
  <2>7. \A n \in Names : gone'[n] \cap Findable' = {}
    BY <1>0, <1>2, <2>2 DEF DeletedIsOffDisk, Deleted, NothingReturns, history
  <2>8. \A c \in Deleters : deletes'[c].removed \cap Findable' = {}
    BY <1>0, <2>2, <2>3, <2>4 DEF DeletedIsOffDisk, Deleted, NothingReturns
  <2>9. DeletedIsOffDisk'
    BY <2>7, <2>8 DEF DeletedIsOffDisk, Deleted
  <2>10. OnlyRacesShowDeleted' /\ OnlyRacesCarryDeleted'
    BY <1>0, <1>2 DEF OnlyRacesShowDeleted, OnlyRacesCarryDeleted, InSnapshot, InCache,
                      InAnswers, history
  <2>11. HalfInvalidated'
    BY <1>0, <1>2, <2>3, <2>4 DEF HalfInvalidated, InSnapshot
  <2> QED BY <2>6, <2>9, <2>10, <2>11 DEF DeletionsAreTracked
<1> QED BY <1>3, <1>4 DEF DeleteRemove

LEMMA DeleteFailsKeeps ==
  ASSUME DeletionsAreTracked, NEW d \in Deleters, NEW p \in ProductIds, DeleteFails(d, p)
  PROVE  DeletionsAreTracked'
<1>0. TypeOK
  BY DEF DeletionsAreTracked
<1>1. PICK files : disk' = [disk EXCEPT ![RootOf[p]] = @ \ files]
  BY DEF DeleteFails
<1>2. TreeOK' /\ NothingReturns /\ upsets' \in 0..MaxUpsets
  <2>1. RootOf[p] \in Roots /\ TreeOK /\ UNCHANGED checkouts
    BY <1>0 DEF DeleteFails, TypeOK
  <2>2. TreeOK' /\ NothingReturns
    BY <1>1, <2>1, RemovingKeeps
  <2>3. upsets' \in 0..MaxUpsets
    BY <1>0 DEF DeleteFails, Upset, TypeOK, TablesOK
  <2> QED BY <2>2, <2>3
<1> DEFINE e == [deletes[d] EXCEPT !.pc = "failed"]
<1>3. deletes' = [deletes EXCEPT ![d] = e] /\ deletes[d] \in Deletion
  BY <1>0 DEF DeleteFails, TypeOK, HistoryOK
<1>4. e \in Deletion /\ e.pc # "clear" /\ e.removed = deletes[d].removed
  BY <1>3 DEF Deletion
<1>5. UNCHANGED <<products, jobs, checkouts, snapshots, refresher, reads, cache, history>>
  BY DEF DeleteFails
<1> HIDE DEF e
<1> QED BY <1>2, <1>3, <1>4, <1>5, DeletionGetsOn

LEMMA DeleteSnapshotKeeps ==
  ASSUME DeletionsAreTracked, NEW d \in Deleters, DeleteSnapshot(d)
  PROVE  DeletionsAreTracked'
<1>0. TypeOK /\ DeletedIsOffDisk /\ OnlyRacesShowDeleted /\ OnlyRacesCarryDeleted
        /\ HalfInvalidated
  BY DEF DeletionsAreTracked
<1> DEFINE n == deletes[d].name
           e == [deletes[d] EXCEPT !.pc = "clear", !.raced = deletes[d].removed \cap Gathered(n)]
<1>1. deletes[d] \in Deletion /\ n \in Names
  BY <1>0 DEF TypeOK, HistoryOK, Deletion
<1>2. deletes' = [deletes EXCEPT ![d] = e]
  BY <1>0 DEF DeleteSnapshot, TypeOK, HistoryOK, Gathered
<1>3. e \in Deletion /\ e.name = n /\ e.removed = deletes[d].removed
        /\ e.raced = deletes[d].removed \cap Gathered(n)
  BY <1>1 DEF Deletion
<1>4. UNCHANGED <<products, jobs, tree, refresher, reads, cache, history, upsets>>
  BY DEF DeleteSnapshot
<1>5. /\ DOMAIN snapshots' = DOMAIN snapshots \ {n}
      /\ \A m \in DOMAIN snapshots' : snapshots'[m] = snapshots[m]
  BY DEF DeleteSnapshot, Restrict
<1> HIDE DEF e
<1>6. \A c \in Deleters : deletes'[c] = IF c = d THEN e ELSE deletes[c]
  BY <1>0, <1>2 DEF TypeOK, HistoryOK
<1>7. TypeOK'
  <2>1. HistoryOK'
    BY <1>0, <1>2, <1>3, <1>4 DEF TypeOK, HistoryOK, history
  <2>2. IsReport(snapshots')
    BY <1>0, <1>5 DEF TypeOK, TablesOK, IsReport
  <2> QED BY <1>0, <1>4, <2>1, <2>2, TypesStay DEF TypeOK, TablesOK
<1>8. \A m \in Names : InSnapshot(m)' = IF m = n THEN {} ELSE InSnapshot(m)
  BY <1>5 DEF InSnapshot
<1>9. DeletedIsOffDisk'
  BY <1>0, <1>3, <1>4, <1>6 DEF DeletedIsOffDisk, Deleted, Findable, tree, history
<1>10. OnlyRacesShowDeleted' /\ OnlyRacesCarryDeleted'
  BY <1>0, <1>4, <1>8
     DEF OnlyRacesShowDeleted, OnlyRacesCarryDeleted, InCache, InAnswers, history
<1>11. HalfInvalidated'
  <2> SUFFICES ASSUME NEW c \in Deleters, deletes'[c].pc = "clear"
               PROVE  (InSnapshot(deletes[c].name)' \cup Gathered(deletes[c].name)')
                        \cap deletes'[c].removed \subseteq deletes'[c].raced
    BY DEF HalfInvalidated, Gathered
  <2>1. CASE c = d
    BY <1>1, <1>3, <1>4, <1>6, <1>8, <2>1 DEF Gathered
  <2>2. CASE c # d
    <3>1. deletes'[c] = deletes[c] /\ deletes[c].name \in Names
      BY <1>0, <1>6, <2>2 DEF TypeOK, HistoryOK, Deletion
    <3>2. (InSnapshot(deletes[c].name) \cup Gathered(deletes[c].name))
            \cap deletes[c].removed \subseteq deletes[c].raced
      BY <1>0, <3>1 DEF HalfInvalidated, Gathered
    <3>3. Gathered(deletes[c].name)' = Gathered(deletes[c].name)
      BY <1>4, <3>1 DEF Gathered
    <3> QED BY <1>8, <3>1, <3>2, <3>3
  <2> QED BY <2>1, <2>2
<1> QED BY <1>7, <1>9, <1>10, <1>11 DEF DeletionsAreTracked

LEMMA ClearCacheKeeps ==
  ASSUME DeletionsAreTracked, NEW d \in Deleters, ClearCache(d)
  PROVE  DeletionsAreTracked'
<1>0. TypeOK /\ DeletedIsOffDisk /\ OnlyRacesShowDeleted /\ OnlyRacesCarryDeleted
        /\ HalfInvalidated
  BY DEF DeletionsAreTracked
<1> DEFINE n == deletes[d].name
           removed == deletes[d].removed
           e == [deletes[d] EXCEPT !.pc = "done"]
<1>1. /\ deletes[d] \in Deletion /\ n \in Names /\ deletes[d].pc = "clear"
      /\ removed \subseteq Place /\ deletes[d].raced \subseteq Place
  BY <1>0 DEF ClearCache, TypeOK, HistoryOK, Deletion
<1>2. deletes' = [deletes EXCEPT ![d] = e]
  BY <1>0 DEF ClearCache, TypeOK, HistoryOK
<1>3. e \in Deletion /\ e.pc = "done" /\ e.removed = removed
  BY <1>1 DEF Deletion
<1>4. UNCHANGED <<products, jobs, tree, snapshots, refresher, reads, upsets>>
  BY DEF ClearCache
<1>5. /\ gone'  = [gone EXCEPT ![n] = @ \cup removed]
      /\ raced' = [raced EXCEPT ![n] =
                     @ \cup deletes[d].raced \cup (removed \cap InAnswers(n))]
  BY DEF ClearCache
<1>6. /\ DOMAIN cache' = {x \in DOMAIN cache : x[1] # Main}
      /\ \A x \in DOMAIN cache' : cache'[x] = cache[x]
  BY DEF ClearCache, Restrict
<1> HIDE DEF e, removed
<1>7. \A c \in Deleters : deletes'[c] = IF c = d THEN e ELSE deletes[c]
  BY <1>0, <1>2 DEF TypeOK, HistoryOK
<1>8. TypeOK'
  <2>1. HistoryOK'
    BY <1>0, <1>1, <1>2, <1>3, <1>5 DEF TypeOK, HistoryOK
  <2>2. CacheOK'
    BY <1>0, <1>6 DEF TypeOK, CacheOK
  <2> QED BY <1>0, <1>4, <2>1, <2>2, TypesStay DEF TypeOK
<1>9. \A m \in Names : InCache(m)' = {}
  BY <1>6 DEF InCache
<1>10. \A m \in Names :
         /\ gone'[m] = IF m = n THEN gone[n] \cup removed ELSE gone[m]
         /\ raced'[m] = IF m = n
                        THEN raced[n] \cup deletes[d].raced \cup (removed \cap InAnswers(n))
                        ELSE raced[m]
  BY <1>0, <1>5 DEF TypeOK, HistoryOK
<1>11. DeletedIsOffDisk'
  <2>1. removed \subseteq Deleted
    BY DEF Deleted, removed
  <2>2. \A m \in Names : gone'[m] \subseteq Deleted
    BY <1>10, <2>1 DEF Deleted
  <2>3. \A c \in Deleters : deletes'[c].removed \subseteq Deleted
    BY <1>3, <1>7, <2>1 DEF Deleted
  <2>4. Deleted' \subseteq Deleted /\ Findable' = Findable
    BY <1>4, <2>2, <2>3 DEF Deleted, Findable, tree
  <2> QED BY <1>0, <2>4 DEF DeletedIsOffDisk
<1>12. (InSnapshot(n) \cup Gathered(n)) \cap removed \subseteq deletes[d].raced
  BY <1>0, <1>1 DEF HalfInvalidated, Gathered, removed
<1>13. \A m \in Names :
         /\ InSnapshot(m)' = InSnapshot(m)
         /\ Gathered(m)' = Gathered(m)
         /\ InAnswers(m)' = InAnswers(m)
  BY <1>4 DEF InSnapshot, Gathered, InAnswers
<1>14. OnlyRacesShowDeleted'
  BY <1>0, <1>9, <1>10, <1>12, <1>13 DEF OnlyRacesShowDeleted
<1>15. OnlyRacesCarryDeleted'
  BY <1>0, <1>10, <1>12, <1>13 DEF OnlyRacesCarryDeleted, Gathered
<1>16. HalfInvalidated'
  BY <1>0, <1>3, <1>4, <1>7 DEF HalfInvalidated, InSnapshot
<1> QED BY <1>8, <1>11, <1>14, <1>15, <1>16 DEF DeletionsAreTracked

-----------------------------------------------------------------------------
(* Jobs and products *)

LEMMA JobWritesKeeps ==
  ASSUME DeletionsAreTracked, NEW p \in ProductIds, NEW f \in Files, JobWrites(p, f)
  PROVE  DeletionsAreTracked'
<1>0. TypeOK /\ DeletedIsOffDisk /\ OnlyRacesShowDeleted /\ OnlyRacesCarryDeleted
        /\ HalfInvalidated
  BY DEF DeletionsAreTracked
<1> DEFINE r == RootOf[p]
           place == <<r, f>>
<1>1. r \in Roots /\ r \in checkouts /\ place[1] = r /\ place[2] = f
  BY <1>0 DEF JobWrites, TypeOK, TreeOK
<1>2. /\ disk' = [disk EXCEPT ![r] = IF f \in @ THEN @ \ {f} ELSE @ \cup {f}]
      /\ \A n \in Names : gone'[n] = gone[n] \ {place} /\ raced'[n] = raced[n] \ {place}
      /\ gone' = [n \in Names |-> gone[n] \ {place}]
      /\ raced' = [n \in Names |-> raced[n] \ {place}]
      /\ deletes' = [d \in Deleters |->
                       [deletes[d] EXCEPT !.removed = @ \ {place}, !.raced = @ \ {place}]]
  BY DEF JobWrites, Forget
<1>3. UNCHANGED <<products, jobs, checkouts, snapshots, refresher, reads, cache, upsets>>
  BY DEF JobWrites
<1> HIDE DEF place
<1>4. \A d \in Deleters :
        /\ deletes'[d] \in Deletion
        /\ deletes'[d].pc = deletes[d].pc /\ deletes'[d].name = deletes[d].name
        /\ deletes'[d].removed = deletes[d].removed \ {place}
        /\ deletes'[d].raced = deletes[d].raced \ {place}
  <2> TAKE d \in Deleters
  <2>1. deletes[d] \in Deletion
    BY <1>0 DEF TypeOK, HistoryOK
  <2>2. deletes'[d] = [deletes[d] EXCEPT !.removed = @ \ {place}, !.raced = @ \ {place}]
    BY <1>2
  <2> QED BY <2>1, <2>2 DEF Deletion
<1>5. TreeOK'
  BY <1>0, <1>1, <1>2, <1>3 DEF TypeOK, TreeOK
<1>6. HistoryOK'
  BY <1>0, <1>2, <1>4 DEF TypeOK, HistoryOK
<1>7. TypeOK'
  BY <1>0, <1>3, <1>5, <1>6, TypesStay DEF TypeOK
<1>8. Findable' \subseteq Findable \cup {place}
  <2> SUFFICES ASSUME NEW q \in Findable', q \notin Findable PROVE q = place
    OBVIOUS
  <2>1. q \in Place /\ q[1] \in checkouts /\ q[2] \in disk'[q[1]] /\ q[2] \notin disk[q[1]]
    BY <1>3 DEF Findable
  <2>2. q = <<q[1], q[2]>>
    BY <2>1 DEF Place
  <2>3. q[1] = r /\ q[2] = f
    BY <1>0, <1>2, <2>1 DEF TypeOK, TreeOK, Place
  <2> QED BY <2>2, <2>3 DEF place
<1>9. DeletedIsOffDisk'
  <2>1. \A n \in Names : gone'[n] \subseteq Deleted \ {place}
    BY <1>2 DEF Deleted
  <2>2. \A d \in Deleters : deletes'[d].removed \subseteq Deleted \ {place}
    BY <1>4 DEF Deleted
  <2>3. Deleted' \subseteq Deleted \ {place}
    BY <2>1, <2>2 DEF Deleted
  <2> QED BY <1>0, <1>8, <2>3 DEF DeletedIsOffDisk
<1>10. \A n \in Names :
         /\ InSnapshot(n)' = InSnapshot(n) /\ InCache(n)' = InCache(n)
         /\ InAnswers(n)' = InAnswers(n)
  BY <1>3 DEF InSnapshot, InCache, InAnswers
<1>11. OnlyRacesShowDeleted'
  BY <1>0, <1>2, <1>10 DEF OnlyRacesShowDeleted
<1>12. OnlyRacesCarryDeleted'
  BY <1>0, <1>2, <1>3, <1>10 DEF OnlyRacesCarryDeleted
<1>13. HalfInvalidated'
  BY <1>0, <1>3, <1>4 DEF HalfInvalidated, InSnapshot
<1> QED BY <1>7, <1>9, <1>11, <1>12, <1>13 DEF DeletionsAreTracked

\* The other steps of jobs and users are out of sight of readers and deletions.
LEMMA ProductKeeps ==
  ASSUME DeletionsAreTracked, NEW p \in ProductIds,
         JobStart(p) \/ JobClones(p) \/ JobEnd(p) \/ RemoveProduct(p)
           \/ \E n \in Names : EditProduct(p, n)
  PROVE  DeletionsAreTracked'
<1>0. TypeOK
  BY DEF DeletionsAreTracked
<1>1. /\ UNCHANGED <<snapshots, refresher, reads, cache, deletes, history>>
      /\ upsets' \in 0..MaxUpsets
  BY <1>0 DEF JobStart, JobClones, JobEnd, RemoveProduct, EditProduct, Upset, TypeOK, TablesOK
<1>2. IsTable(products') /\ jobs' \subseteq DOMAIN products' /\ TreeOK' /\ NothingReturns
  <2>1. CASE JobStart(p) \/ JobEnd(p)
    <3>1. TreeOK' /\ NothingReturns
      BY <1>0, <2>1, TreeUntouched, TypesStay DEF JobStart, JobEnd
    <3> QED BY <1>0, <2>1, <3>1 DEF JobStart, JobEnd, TypeOK, TablesOK
  <2>2. CASE JobClones(p)
    <3>1. TreeOK' /\ NothingReturns
      BY <1>0, <2>2, CloningKeeps DEF JobClones, TypeOK
    <3> QED BY <1>0, <2>2, <3>1 DEF JobClones, TypeOK, TablesOK
  <2>3. CASE RemoveProduct(p)
    <3>1. TreeOK' /\ NothingReturns
      BY <1>0, <2>3, TreeUntouched, TypesStay DEF RemoveProduct
    <3>2. /\ DOMAIN products' = DOMAIN products \ {p} /\ p \notin jobs /\ jobs' = jobs
          /\ \A q \in DOMAIN products' : products'[q] = products[q]
      BY <2>3 DEF RemoveProduct, Restrict
    <3> QED BY <1>0, <3>1, <3>2 DEF TypeOK, TablesOK, IsTable
  <2>4. ASSUME NEW n \in Names, EditProduct(p, n)
        PROVE  IsTable(products') /\ jobs' \subseteq DOMAIN products' /\ TreeOK' /\ NothingReturns
    <3>1. TreeOK' /\ NothingReturns
      BY <1>0, <2>4, TreeUntouched, TypesStay DEF EditProduct
    <3>2. /\ DOMAIN products' = DOMAIN products \cup {p} /\ jobs' = jobs
          /\ \A q \in DOMAIN products' :
               products'[q] = IF q = p THEN [name |-> n, edit |-> upsets'] ELSE products[q]
      BY <2>4 DEF EditProduct
    <3>3. [name |-> n, edit |-> upsets'] \in Product
      BY <1>1 DEF Product
    <3> QED BY <1>0, <3>1, <3>2, <3>3 DEF TypeOK, TablesOK, IsTable
  <2> QED BY <2>1, <2>2, <2>3, <2>4
<1>3. TypeOK'
  BY <1>0, <1>1, <1>2, TypesStay DEF TypeOK, TablesOK
<1> QED BY <1>1, <1>2, <1>3, QuietStep, NothingFlows, DeletionsUntouched DEF DeletionsAreTracked

-----------------------------------------------------------------------------
(* Theorems *)

LEMMA NewDeletionType == NewDeletion \in Deletion
<1>1. (CHOOSE n \in Names : TRUE) \in Names
  OBVIOUS
<1> QED BY <1>1 DEF NewDeletion, Deletion

LEMMA InitTracked == Init => DeletionsAreTracked
<1> SUFFICES ASSUME Init PROVE DeletionsAreTracked
  OBVIOUS
<1>1. \A p \in ProductIds : [name |-> FirstName[p], edit |-> 0] \in Product
  BY DEF Product
<1>2. TablesOK
  BY <1>1 DEF Init, TablesOK, IsTable, IsReport
<1>3. TreeOK
  BY DEF Init, TreeOK
<1>4. RefresherOK
  BY DEF Init, NoRefresh, RefresherOK, IsTable
<1>5. ReadsOK /\ CacheOK
  BY DEF Init, ReadsOK, CacheOK
<1>6. HistoryOK
  BY NewDeletionType DEF Init, HistoryOK
<1>7. \A n \in Names : gone[n] = {} /\ raced[n] = {}
  BY DEF Init
<1>8. \A d \in Deleters : deletes[d].removed = {} /\ deletes[d].pc = "new"
  BY DEF Init, NewDeletion
<1>9. DeletedIsOffDisk /\ OnlyRacesShowDeleted /\ OnlyRacesCarryDeleted /\ HalfInvalidated
  BY <1>7, <1>8
     DEF DeletedIsOffDisk, Deleted, OnlyRacesShowDeleted, OnlyRacesCarryDeleted, HalfInvalidated
<1> QED BY <1>2, <1>3, <1>4, <1>5, <1>6, <1>9 DEF DeletionsAreTracked, TypeOK

LEMMA StepTracked == DeletionsAreTracked /\ [Next]_vars => DeletionsAreTracked'
<1> SUFFICES ASSUME DeletionsAreTracked, [Next]_vars PROVE DeletionsAreTracked'
  OBVIOUS
<1>1. CASE Refresh \/ RefreshFails
  BY <1>1, RefresherKeeps
<1>2. CASE \E r \in Readers : ReadStep(r)
  BY <1>2, LookInCacheKeeps, LoadSnapshotsKeeps, ReadScanKeeps, AnswerKeeps DEF ReadStep
<1>3. CASE \E d \in Deleters : DeleteStep(d)
  BY <1>3, DeleteCheckKeeps, DeleteRemoveKeeps, DeleteSnapshotKeeps, ClearCacheKeeps
     DEF DeleteStep
<1>4. CASE \E d \in Deleters, p \in ProductIds : DeleteFails(d, p)
  BY <1>4, DeleteFailsKeeps
<1>5. CASE \E x \in Servers \X Projects : Expire(x)
  BY <1>5, ExpireKeeps
<1>6. CASE NewRequest
  <2>1. ASSUME NEW d \in Deleters, NEW p \in ProductIds, NEW f \in Files, DeleteFile(d, p, f)
        PROVE  DeletionsAreTracked'
    <3>1. products[p].name \in Names
      BY <2>1 DEF DeleteFile, DeletionsAreTracked, TypeOK, TablesOK, IsTable, Product
    <3>2. {f} \in SUBSET Files /\ {p} \in SUBSET ProductIds /\ TRUE \in BOOLEAN
      OBVIOUS
    <3> QED BY <2>1, <3>1, <3>2, StartKeeps DEF DeleteFile
  <2>2. \A n : Named(products, n) \in SUBSET ProductIds
    BY DEF Named, DeletionsAreTracked, TypeOK, TablesOK, IsTable
  <2>3. ASSUME NEW d \in Deleters, NEW n \in Names, DeleteFailed(d, n)
        PROVE  DeletionsAreTracked'
    <3>1. Failing \in SUBSET Files /\ FALSE \in BOOLEAN
      OBVIOUS
    <3> QED BY <2>2, <2>3, <3>1, StartKeeps DEF DeleteFailed
  <2>4. ASSUME NEW d \in Deleters, NEW n \in Names, NEW s \in Stems, DeleteTarget(d, n, s)
        PROVE  DeletionsAreTracked'
    <3>1. {f \in Files : StemOf[f] = s} \in SUBSET Files /\ FALSE \in BOOLEAN
      OBVIOUS
    <3> QED BY <2>2, <2>4, <3>1, StartKeeps DEF DeleteTarget
  <2> QED BY <1>6, <2>1, <2>3, <2>4, BeginSummaryKeeps, GetDetailKeeps DEF NewRequest
<1>7. CASE \E p \in ProductIds : ProductStep(p)
  BY <1>7, JobWritesKeeps, ProductKeeps DEF ProductStep
<1>8. CASE UNCHANGED vars
  <2>1. TypeOK'
    BY <1>8, TypesStay DEF vars, DeletionsAreTracked, TypeOK
  <2> QED BY <1>8, <2>1, QuietStep, NothingFlows, DeletionsUntouched, TreeUntouched
          DEF vars, DeletionsAreTracked
<1> QED BY <1>1, <1>2, <1>3, <1>4, <1>5, <1>6, <1>7, <1>8 DEF Next

\* The inductive invariant holds throughout: whatever the interleaving of the refresher,
\* summary requests, deletions, jobs and edits of products.
THEOREM DeletionsTracked == Spec => []DeletionsAreTracked
<1>1. Init => DeletionsAreTracked
  BY InitTracked
<1>2. DeletionsAreTracked /\ [Next]_vars => DeletionsAreTracked'
  BY StepTracked
<1> QED BY <1>1, <1>2, PTL DEF Spec

\* On the main server a deleted test is shown again only if a refresh or a summary request
\* had read it before the deletion and published it after (_invalidate_after_delete).
THEOREM DeletedStayHidden == Spec => []OnlyRacesShowDeleted
<1>1. DeletionsAreTracked => OnlyRacesShowDeleted
  BY DEF DeletionsAreTracked
<1> QED BY <1>1, DeletionsTracked, PTL

LEMMA InitChecksFirst == Init => ChecksComeFirst
  BY DEF Init, ChecksComeFirst, NewDeletion

\* Only DeleteRemove removes, when every checkout has been looked at.
LEMMA StepChecksFirst ==
  TypeOK /\ ChecksComeFirst /\ [Next]_vars => ChecksComeFirst'
<1> SUFFICES ASSUME TypeOK, ChecksComeFirst, [Next]_vars PROVE ChecksComeFirst'
  OBVIOUS
<1>0. deletes \in [Deleters -> Deletion]
  BY DEF TypeOK, HistoryOK
<1>1. CASE deletes' = deletes
  BY <1>1 DEF ChecksComeFirst
<1>2. ASSUME NEW d \in Deleters, NEW n, NEW one, NEW doomed, NEW todo,
             Start(d, n, one, doomed, todo)
      PROVE  ChecksComeFirst'
  BY <1>0, <1>2 DEF Start, ChecksComeFirst, Deletion
<1>3. ASSUME NEW d \in Deleters, NEW p \in ProductIds, DeleteCheck(d, p)
      PROVE  ChecksComeFirst'
  <2>1. deletes[d] \in Deletion /\ deletes[d].removed = {}
    BY <1>0, <1>3 DEF DeleteCheck, ChecksComeFirst
  <2>2. \A c \in Deleters : c # d => deletes'[c] = deletes[c]
    BY <1>0, <1>3 DEF DeleteCheck
  <2>3. deletes'[d].removed = {}
    BY <1>0, <1>3, <2>1 DEF DeleteCheck, Deletion
  <2> QED BY <2>2, <2>3 DEF ChecksComeFirst
<1>4. ASSUME NEW d \in Deleters, NEW p \in ProductIds, DeleteRemove(d, p)
      PROVE  ChecksComeFirst'
  <2>1. deletes[d] \in Deletion /\ deletes[d].pc = "remove" /\ deletes[d].todo = {}
    BY <1>0, <1>4 DEF DeleteRemove
  <2>2. \A c \in Deleters : c # d => deletes'[c] = deletes[c]
    BY <1>0, <1>4 DEF DeleteRemove, Unlink
  <2>3. deletes'[d].pc \in {"remove", "failed"} /\ deletes'[d].todo = {}
    BY <1>0, <1>4, <2>1 DEF DeleteRemove, Unlink, Deletion
  <2> QED BY <2>2, <2>3 DEF ChecksComeFirst
<1>5. ASSUME NEW d \in Deleters, NEW p \in ProductIds, DeleteFails(d, p)
      PROVE  ChecksComeFirst'
  BY <1>0, <1>5 DEF DeleteFails, ChecksComeFirst, Deletion
<1>6. ASSUME NEW d \in Deleters, DeleteSnapshot(d) \/ ClearCache(d)
      PROVE  ChecksComeFirst'
  BY <1>0, <1>6 DEF DeleteSnapshot, ClearCache, ChecksComeFirst, Deletion
<1>7. ASSUME NEW p \in ProductIds, NEW f \in Files, JobWrites(p, f)
      PROVE  ChecksComeFirst'
  <2>1. \A d \in Deleters :
          deletes'[d] = [deletes[d] EXCEPT !.removed = @ \ {<<RootOf[p], f>>},
                                           !.raced = @ \ {<<RootOf[p], f>>}]
    BY <1>7 DEF JobWrites, Forget
  <2>2. \A d \in Deleters :
          /\ deletes'[d].pc = deletes[d].pc /\ deletes'[d].todo = deletes[d].todo
          /\ deletes'[d].removed \subseteq deletes[d].removed
    <3> TAKE d \in Deleters
    <3>1. deletes[d] \in Deletion
      BY <1>0
    <3>2. deletes'[d] = [deletes[d] EXCEPT !.removed = @ \ {<<RootOf[p], f>>},
                                           !.raced = @ \ {<<RootOf[p], f>>}]
      BY <2>1
    <3> QED BY <3>1, <3>2 DEF Deletion
  <2> QED BY <2>2 DEF ChecksComeFirst
<1>8. CASE Refresh \/ RefreshFails
  BY <1>1, <1>8 DEF Refresh, RefreshBegin, RefreshLook, RefreshStore, RefreshScan, RefreshFails
<1>9. CASE \E r \in Readers : ReadStep(r)
  BY <1>1, <1>9 DEF ReadStep, LookInCache, LoadSnapshots, Answer, ReadScan
<1>10. CASE \E x \in Servers \X Projects : Expire(x)
  BY <1>1, <1>10 DEF Expire
<1>11. CASE NewRequest
  BY <1>1, <1>2, <1>11 DEF NewRequest, BeginSummary, GetDetail, DeleteFile, DeleteFailed, DeleteTarget
<1>12. CASE \E p \in ProductIds : ProductStep(p)
  BY <1>1, <1>7, <1>12 DEF ProductStep, JobStart, JobClones, JobEnd, RemoveProduct, EditProduct
<1>13. CASE UNCHANGED vars
  BY <1>1, <1>13 DEF vars
<1> QED BY <1>3, <1>4, <1>5, <1>6, <1>8, <1>9, <1>10, <1>11, <1>12, <1>13 DEF Next, DeleteStep

\* A deletion refused because of a running job has removed nothing, in no checkout of the
\* group (delete_failed_tests, delete_target_tests).
THEOREM RefusalsAreHarmless == Spec => []RefusedDeletesNothing
<1>1. Init => ChecksComeFirst
  BY InitChecksFirst
<1>2. DeletionsAreTracked => TypeOK
  BY DEF DeletionsAreTracked
<1>3. TypeOK /\ ChecksComeFirst /\ [Next]_vars => ChecksComeFirst'
  BY StepChecksFirst
<1>4. ChecksComeFirst => RefusedDeletesNothing
  BY DEF ChecksComeFirst, RefusedDeletesNothing
<1> QED BY <1>1, <1>2, <1>3, <1>4, DeletionsTracked, PTL DEF Spec

=============================================================================
