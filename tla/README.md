# A verification project for build-postgres

TLA+ modules, TLC runs and TLAPS proofs for the parts of build-postgres in
which state, concurrency and failure meet: the transaction manager and its
commit log, snapshots and visibility, the heap under concurrent writers, unique
indexes, the B-tree, the buffer pool, sessions with the files they create and
drop, the system catalogs, and a statement's way from its plan to the bytes of a
page.

    tlc -workers 2 -config MCTxnManager.cfg MCTxnManager    # one run
    tlapm TxnManagerProofs.tla                              # the proofs
    tlapm SessionProofs.tla
    tlapm MvccHeapProofs.tla                                # and the other *Proofs

`PROJECT.json` lists the components, the runs, the source lines behind every
definition, the hazards, the findings, the theorems, and for each property a
mutant: a plausible bug, kept in the modules as a definition with a comment that
begins `Slip:`, which makes that property fail.

## What the source is

The `main` branch of the repository is a course. Its Go packages carry the
types, the constants and detailed contract comments, with bodies that
`panic("not implemented")`; the reference implementation lives on another
branch (`docs/DECISIONS.md`, D7). The program is nevertheless pinned down step
by step: by the contracts, by the tests, and by the design sections and
function sketches of `chapters/NN-*/README.md`, which say which lock is taken
where, what is written in which order and what an error leaves behind. The
modules translate those: a definition is mapped to the contract in
`internal/**/*.go` when the contract says what it does, and to the chapter when
the step inside an operation is described only there. A run that contradicts a
sentence therefore says that the design as documented does not do what the
sentence promises, and a reader of the implementation can check the one place
it names.

## Inventory

| Component | State | Operations | Interacts with |
|---|---|---|---|
| `internal/txn` Manager | `next`, `running` (XID to channel), open segment files; `pg_xact/` on disk | Open, Close, Begin, Commit, Abort, Status, Snapshot, Wait | control file; asked by mvcc; driven by session |
| `catalog/control.go` | the control file, `controlMu` | ReadControl, WriteControl, UpdateControl | Begin and NewOID rewrite it, one field each |
| `internal/mvcc` Snapshot | xmin, xmax, xip, own XID | Take, InProgress, Visible, Dirty, Modify, Wait | asks the manager; judges tuples for heap and index |
| `internal/heap` Relation, Scan | pages of tuples (xmin, xmax, ctid, hint bits), insert target | Insert, Fetch, Delete, Lock, Update, Scan | buffer pool; snapshot |
| executor `modifyTable` | the rows to write | the write loop with conflict handling | heap, index |
| `internal/index` | one insert lock per relation | Check, CheckUnique, Insert, Build | B-tree, heap, snapshot |
| `internal/btree` Tree, Scan | metapage, pages of a level linked to their siblings | Create, Insert, Search, Scan, Check | buffer pool |
| `internal/bufmgr` Pool | frames (tag, pins, usage, dirty, content lock), table, clock hand | Pin, Extend, Unpin, MarkDirty, Flush, FlushAll, Discard | storage manager; every page user |
| `internal/smgr` DataDir | relation files, open descriptors | Create, Exists, Unlink, Read, Write, Extend, Sync, SyncAll | the operating system |
| `internal/session` Cluster, Session | tx, explicit, failed, isolation, snap | Exec (implicit and explicit transactions), Close | everything above |
| `internal/catalog` | pg_class, pg_attribute, pg_index, cache, pending files | CreateTable, DropTable, CreateIndex, DropIndex, Lookup, EndTransaction | heap, smgr, control file |
| `internal/page`, `internal/tuple` | line pointers and bytes of a page, a tuple's header and data | Init, AddItem, InsertItem, GetItem, DeleteItem, Compact; Form, Deform | heap, B-tree |
| `internal/planner`, `internal/plan` | the paths of each relation set, during one call | Plan | analyzer's query trees, executor |
| `internal/executor`, `expr` | per node: position, stored rows, hash table, current outer row | Build, Open, Next, Rescan, Close; Compile | heap, index, B-tree |
| `internal/sql` | none between statements | lex, parse, analyze | catalog, planner |
| `cmd/pgdb`, regress and isolation runners | none | drivers | session |

Goroutines of different sessions share the cluster: the manager (one mutex),
the control file (`controlMu`), the pool (one mutex, a content lock per frame),
the insert lock of each relation. A session waits for another only in
`Manager.Wait`. What makes the system hard:

- **crashes between two steps** of Begin, Commit and WriteControl, with the log
  synced only by Commit and the control file kept current by rename;
- **verdicts cached** in hint bits, computed under the shared lock and written
  later under the exclusive one;
- **check, then act with the lock down**: Update's check and stamp, the
  executor's `h.Lock` and the unique check, the unique check and the write;
- **scans that hold nothing between pages** while rows are moved and leaves
  split;
- **an error half way**: an open, write or sync of Commit, an Abort, an Unlink, a
  victim that cannot be written, a page write in the middle of a split, a
  statement in a block;
- **files that must follow the verdict** of the transaction that made or
  dropped them;
- **catalog methods without a lock across sessions**: each is several scans, with
  a snapshot each, and several rows, and fills a cache other sessions outdate;
- **nodes that keep state over a Rescan**, and plans that must all mean the same;
- **blocks that exist before their pages do**, because Extend comes first.

What makes each component correct, beyond its unit tests: the manager never
reuses an ID and never changes an answer; a scan returns its snapshot; no update
is lost; committed rows never share a unique key; no split loses an entry and a
scan misses none; no change to a page is lost or torn and a commit bit vouches
only for stable pages; the client's answer is the verdict and every visible
table has its file; a relation's catalog rows and its file come and go together;
what a statement returns and leaves is what its text means, under every plan.

## Modules

    Xacts            the abstract transaction table
      +- XactsInDoubt  the table when a Commit may be cut short
      |    ^  implemented by TxnManager (checked and proved: ImplementsXacts)
      |    |             <- TxnManagerProofs
      |    +- Session      blocks, snapshots, catalog rows and files (also on Mvcc)
      |                      <- SessionProofs
      +- Mvcc          snapshots and visibility, on the abstract table
           +- MvccHeap     one relation, its scans and writers
           |                 <- MvccHeapProofs
           +- UniqueIndex  index.Check, Insert and Build over a relation
           |                 <- UniqueIndexProofs
           +- Catalog      the three catalogs, their methods and the caches
                             <- CatalogProofs
    BufferPool       the pool over the store, up to the commit bit
                       <- BufferPoolProofs
    BTree            the tree under one writer and a scan
                       <- BTreeProofs
    Page, Tuple      the slotted page; Form and Deform
      +- HeapFile      heap.Insert, Delete and scans on pages, and a crash
           |             <- HeapFileProofs
           +- Executor   expressions and every plan node
                +- Planner   every plan the search may end with
                     +- Query    statements, run beside another session

`Xacts` is what everything above the manager would like to assume of it: an ID is
unassigned, running, committed or aborted, IDs are assigned once and in order,
a verdict stays. The manager does not quite give that: a Commit cut short after
it wrote its code leaves a transaction whose verdict the next crash decides.
`XactsInDoubt` is `Xacts` with the set of those transactions, `inDoubt`; only a
transaction's own Commit puts it there, and every other one keeps its verdict.
`TxnManager` implements it whatever fails or crashes, and `Session`, where a
failing Commit meets a client and files, is built on it. As long as nothing is in
doubt the manager implements `Xacts` (`ManagerWithoutDoubt`); `MvccHeap`,
`UniqueIndex` and `Catalog` are built on that and say nothing of the rows of a
transaction in doubt. In the same way `Session.Flush` is one step whose inside,
FlushAll, SyncAll and their order before the bit, is `BufferPool`; the one
writer of `BTree` is what the insert lock of `UniqueIndex` guarantees, and
`UniqueIndex` sees the tree as a set of entries, which is what `AckedIsStored`
and `ScanIsComplete` say of it. `Query` composes the layers below a statement
(planner, executor, heap, pages, tuples) in one specification, and takes from
the layers beside them what they promise: a snapshot is a set of committed
transactions, an index the entries of its heap. It is also an implementation of
`HeapSpec`, the specification of the heap by itself, which is where the proofs
about pages and tuples are made: whatever statements do above it, what they do
to a page is a step of `HeapFile` (`ImplementsHeap`).

**TxnManager.** `op` is the holder of the manager's mutex and where its call
stands, `ctl` the holder of `controlMu` with the control value it is about to
install. `log[x]` is the code a read returns, `survive[x]` the codes a crash may
leave: a write adds one, a sync leaves only the one written. `control` and
`ctlSurvive` are the same for the renamed control file, `files` and
`filesSynced` for directory entries of `pg_xact/`. Begin is `BeginStart`,
`ControlRename`, `ControlSync`, `BeginReturn`; Commit and Abort are `FinishStart`,
`OpenSegment`, `SyncDir`, `FinishWrite`, `FinishSync` (Commit only),
`FinishReturn`. `FinishFails` is an error of any of the calls to the file system
among them, the open and SyncDir included, and `ControlFails` one in WriteControl.
`ProcessCrash` loses what is in memory: the next manager reads what was written,
synced or not, and a later `Crash` may still take it back. `Crash`, of the machine,
picks from what may survive. History: `issued`, `oids`, `acked`, `told`; `doubt`,
the transactions whose Commit was cut short, by an error or by the end of the
process, between its write and the end of its sync; `cut`, the segment files whose
creation was cut short before SyncDir; and `adrift`, the transactions whose Commit
went to one of those.

**Mvcc.** Operators only. `Visible`, `Dirty` and `Modify` follow the contracts
of mvcc.go rule by rule, hint bits before the log; `VisibleHints` are the bits
Visible would set.

**MvccHeap.** The steps between lock releases: `ReadBlock` under the shared
lock, `SetHints` under the exclusive one, `CheckTarget` (Lock and the first half
of Update), `InsertTuple`, `StampTarget`, `StampFails`, `Bury` of the new
version after a lost race, `Conflict` and `Recheck` of modifyTable. Blocks hold
one tuple each, the finest interleaving of a scan. A row's value counts its
updates, so a lost update shows as a wrong number.

**UniqueIndex.** `Check` collects the entries of a key, `FetchWaits`,
`FetchConflicts`, `FetchDead` judge them one at a time with Dirty, the heap is
written in one step, then `Acquire` takes the insert lock and the check is
repeated before `WriteEntry`. A wait releases the lock and starts over. CREATE
INDEX is `StartBuild`, a `BuildTuple` or a wait for every version in heap order,
and `EndBuild`; statements that looked the table up before do not know the index
(`SeesIndex`).

**BufferPool.** `Sweep` is the clock turn by turn; PinMiss evicts, loads and
installs in one step as the code does under the pool's mutex. FlushAll goes
frame by frame: skip, pin, content lock, write, with the mutex down for the
lock. `Discard` and `Unlink` drop a relation under its readers. A read, a write and
SyncAll may fail (`SyncFails`: some relations are synced, and Commit is not called).

**Session.** `tx`, `explicit`, `failed`, `isolation` and `snap` as in the Go
struct; a statement is CREATE TABLE, DROP TABLE or any other, and may fail at
every step. `pending` is the catalog's pendingFile list. The end of a transaction
is `Flush`, `WriteBit` if the Commit to come is one that may be cut short,
`CommitBit`, one `RemoveFile` per file, `EndTransaction`. The calls below may fail:
`CommitFails` (the flush or Commit), `AbortTx` in its second form, which every
action that aborts uses, `RemoveFileFails`. After a failing flush or Commit a
statement is aborted (`Undo`); of a block the contract does not say whether it is
aborted, left failed or left open for another COMMIT, and all three are allowed.
A failing Abort leaves its ID running with no session to end it until the
process ends (`stuck`), and whoever waits for it waits as long. A failing Unlink
leaves the file (`stray`): EndTransaction clears its list either way and returns
the first error, which the client gets as its answer although the transaction
has committed (`answer` is "error"). `bereft` are the files removed for one
verdict of a transaction in doubt that may get the other. The properties name
these exceptions and hold apart from them.

**BTree.** `NewRight`, `WriteRight`, `WriteLeft`, `LinkSibling`, then the parent
or `NewRoot` and `WriteMeta`: one page write per step, in the order of the
split sketch; `InsertFails` stops an insert at any of them. A scan descends page
by page (`ScanDescend`), reads a leaf (`ScanLeaf`), follows `next` (`ScanNext`).

**Catalog.** Every method is cut where another session can come in: at each scan
of a catalog, which takes a snapshot of its own, and at each row written.
`Exists` is the check of the name, `Create` the OID and the file, `InsertRow` a
row; a drop is a list of tasks (`todo`), scans that find more rows and rows to
delete, in the order of the sketches. `Lookup`, `LoadAttributes`, `LoadIndexes`
and `LoadNames` fill one cache entry. `End` is the verdict with EndTransaction.
History: `since`, what a session could see since its cache was last dropped, and
`knew`, what the check of a name saw.

**Page, Tuple.** Operators only. A page is its header fields, its line pointers
and what lies at each offset, so that an overlap or a write over another item
shows; a tuple is its header and the value at each offset, and Deform finds its
way with a position of its own, as the code does.

**HeapFile.** Insert in the steps between two locks: `InsertPick` of the target
block, `InsertTry`, `InsertExtend` with the zeroed block on disk, `InsertInit`,
`InsertPut`. A crash gives each block back as last written or, if it was evicted
since, as it was. `HeapSpec` is the heap with nothing above it: any session
inserts any of `Rows` at any time (`BeginInsert`), any version there is gets any
xmax and the TID of any other (`MarkOld`), the pool is flushed (`FlushAll`) or the
machine crashes. It starts with the pages `InitRows` leave when they are
inserted one after the other (`LoadRow`).

**Executor, Planner, Query.** A node is a record with the state its Go struct
keeps; `NodeOpen`, `NodeNext` and `NodeRescan` return the node they leave.
`Plans` gives every tree the search may end with, whatever the costs say:
sequential, index and parameterised scans, join orders, nested loops over
Materialize, hash joins, Sort where the order is missing. An error of an
expression ends the statement wherever the code evaluates it: in a qual or a
target, a bound of an index scan, a key of a hash join; a strict operator looks at
its right side only when the left one is not NULL. `ResultIsExact` says of errors
that a SELECT read to its end had no row on which a condition fails to evaluate and
none rejects it, whatever the plan. In `Query` one session
runs statements under any of these plans, each its own transaction, ModifyTable
writing down to the pages, while another inserts and the process may crash; any
SELECT may be rescanned at any point. `rows` is what the committed statements
say the tables are.

## Runs

| Run | Question | Bounds | Distinct states |
|---|---|---|---|
| `txn_recovery` | Do acknowledged verdicts survive, does no ID inherit one, is every answer final? | 3 transactions, two of them in one segment file; close, crash of process or machine, any call failing, anywhere | 1.45 M |
| `txn_live` | Do IDs never repeat, is `XactsInDoubt` implemented, are waiters released? | 2 transactions in one segment file, an OID racing for the control file, 2 waiters; crashes and failures as above | 0.33 M |
| `txn_in_doubt` | *violated:* is an Abort final after a Commit that failed in its sync? | 1 transaction | |
| `heap` | Are updates lost, do hints lie, does a scan return its snapshot, does a write stay within its quals and its level? | three writers of one row, or two transactions of two statements at both levels over two rows | 0.59 M |
| `unique_index` | Do committed rows never share a key, is every live version indexed, does every statement end? | three transactions inserting one key; two sending three statements of any kind, CREATE INDEX among them, over 2 keys | 0.06 M |
| `unique_own_key` | *violated:* does an update to a row's own key succeed? | 3 transactions, one row | |
| `buffer_pool` | Are changes lost, torn or vouched for too early; is the sweep the clock; do pins hold a page? | 2 goroutines, 2 frames, a kept relation of up to 2 blocks and a dropped one, two changes of a page, one failing read, write or SyncAll | 1.76 M |
| `session` | Is the answer the verdict, has a visible table its file, does a snapshot fit its statement? | 2 sessions, 3 transactions, 2 tables, at most 4 of those together, 5 with the failing calls; one crash | 4.9 M |
| `btree` | Does the tree pass Check, is every entry kept, does a scan miss none? | 6 entries (two values and NULL, two each), 3 items per page: up to 3 levels; one scan, one failing insert | 0.65 M |
| `btree_bounds` | *violated:* does a scan return only entries in its bounds? | as `btree` | |
| `query` | Does every plan of a statement return and leave what its text means, do pages, TIDs and rows stay whole, and is all it does to them a step of the heap by itself? | 2 relations of 3 rows on pages of 112 bytes, 9 statements under all their plans, one foreign insert, crash and rescan, two statements one after the other | 0.05 M |
| `catalog` | Are relations whole, when do names collide, how old is a cache? | 2 sessions, 3 names, two methods that meet or two statements of one session around another's method | 0.11 M |

Why the bounds are enough to be interesting: three transactions are the least
for a first updater, a second that waits and a third that meets the version of
the second; two in one segment file and one in another exercise both a new file
and a neighbour's code; two frames for three pages force evictions of dirty
pages under FlushAll; three items per page, the least the size limit
guarantees, gives splits of leaves, inner pages and roots within six inserts, and
equal keys on both sides of a separator. Crashes and failing calls of the
transaction manager are not bounded: what a failed call leaves meets the retry, a
crash of the process and then one of the machine. Elsewhere one crash or failure
comes at every possible step, because a second is another instance of the first
on the state it left; a session may meet several failing calls, as many as its
sum of work leaves. Every bound is a named constant and appears as a guard. Mutants confirm that the cases happen:
each property fails for a one-line slip within the same bounds.

The bounds on statements and work are sums (`MaxWork`, the records of a
`Workloads` set): a run spends them on any mix, a crash or a failing call
included. Pages of 112 bytes hold two small tuples exactly or one with a long text,
so that full pages, alignment gaps and extension occur; one value of the two
relations shares its hash with another. `MCRows` are the rows the statements and
the other session can insert there, and `MCXids` the IDs they can have: TLC checks
with `ImplementsHeap` that no other occur. A type invariant is checked where a
value out of its type would be a fault of its own, in `buffer_pool`; that of the
transaction manager is proved.

Symmetry is used for sessions and for goroutines of the pool, which occur only
as interchangeable model values; no property with symmetry is a liveness
property. `CHECK_DEADLOCK FALSE` is set where the bounds on transactions,
statements or writes end every behaviour, or where two transactions may wait for
each other, which the program allows: it has no deadlock detection
(`17-mvcc/README.md`, out of scope). The transaction manager and the B-tree
are checked for deadlock.

### Fairness

`txn_live` and `unique_index` are the runs with liveness. A goroutine inside a
call is scheduled again (weak fairness of the steps of the mutex holder and of a
session). A goroutine that waits for a mutex others take again and again still
gets it, Go's mutex going into starvation mode after a millisecond (strong
fairness of `Wake` and `Acquire`). Nothing makes a client end its transaction, and
two transactions may wait for each other for ever, as the chapter says:
`StatementsEnd` therefore says that a statement ends, or its session stays in
a wait for a transaction that has not ended, which is the only way to hang.
Begin, crashes, closes and the choice of statements are not fair.

### Findings

- **`txn_in_doubt`.** Abort's comment says its log write need not be synced,
  because a transaction not recorded as committed counts as aborted anyway. After
  a Commit that wrote its code and failed in the sync, it is recorded as committed:
  the Abort that follows returns nil, and a crash may bring the commit back.
- **`unique_own_key`.** `h.Lock` holds nothing, so the row can be replaced,
  with the same key, between it and the unique check; the check then finds the
  row's own new version and an update that leaves the key alone fails as a
  duplicate.
- **`btree_bounds`.** A scan that has read a parent and not yet the leaf when the
  leaf splits lands left of its range, and from the next leaf on returns the
  entries it meets without comparing them with the lower bound. Since the bounds
  replace the quals, a row outside the WHERE clause is returned. (It does not
  lose entries: `ScanIsComplete` holds.)

Four more behaviours came up, are part of the models and have no run of their
own, recorded among the hazards:

- **An acknowledged commit can be lost.** `segment` syncs `pg_xact/` only when it
  creates the file (`16-transactions/README.md:208-215`). If that SyncDir fails, or
  the process dies between the two, the file is there and its directory entry is
  not durable; the next Commit, a retry or one of another transaction, finds the
  file, skips SyncDir, writes, syncs the file and is acknowledged, and a crash of
  the machine may lose the file with it, against "so a commit survives a crash"
  (`txn.go:108`). These transactions are `adrift`; without that exception TLC finds
  `CommitSurvives` and `OneVerdict` violated.
- A Delete keeps the ctid an aborted Update left in the row. A waiting writer
  then takes the deletion for an update, follows the chain to the version of the
  aborted transaction and fails with ErrInvisible instead of skipping the row.
- A page of a dropped relation read in again between `Discard` and `Unlink`
  stays in the pool without a file; once dirtied, it makes the FlushAll of every
  later commit fail. Table locks, which would exclude it, are out of scope by
  the chapter. For a moment such a page is in two frames: the one discarded
  under its holder, which FlushAll may have pinned and still writes once it is
  marked dirty, and the new one. `NoTornWrite` excepts relations being dropped
  for that reason; the attempt to prove it without the exception showed the
  case, which takes two changes of the page (`MaxWrites = 2`).
- A pool error in the middle of a split leaves a right page with no downlink:
  nothing stored is lost from the leaf chain (`AckedIsStored` holds), but later
  inserts land to its left and scans from the root can miss entries, although
  the contract says a failed insert changes nothing.

## Proofs

`TxnManagerProofs` proves, for any number of transactions, object IDs, waiters
and any segment size:

| Theorem | Property |
|---|---|
| `TypeCorrect` | `TypeOK`, checked by no run |
| `IdsAreFresh` | `IdsNeverRepeat` |
| `CommitIsDurable` | `CommitSurvives` |
| `AbortIsDurable` | `AbortSurvives` |
| `CleanSlate` | `NoInheritedVerdict` |
| `VerdictsAreFinal` | `OneVerdict` |
| `ManagerImplementsXacts` | `ImplementsXacts` |

`ManagerWithoutDoubt` has no property of its own. The assumptions are those of the
constants: the bounds are naturals, a segment holds at least one transaction. None
of the properties is inductive. "The commit is durable" speaks of what Status answers;
to keep it, one needs that no crash can lose the code, so that the sync
preceded the acknowledgement and the segment's directory entry was durable before
the code was written, so that the mutex holder has passed those steps in that
order, or that the file is one whose creation was cut short. The inductive invariant is the conjunction of five parts:

- `TypeOK`;
- `LockInv`: who holds which mutex, at which step, and what follows for the
  control value in hand; `op` and `ctl` belong to the same Begin or to none;
- `CounterInv`: every control file a crash may leave, and the one about to be
  installed, is past every ID ever returned. `IdsNeverRepeat` alone says nothing
  of a lost rename;
- `LogInv`: how far the mutex holder has got and what is durable by then; every
  segment file is durable, being created or in `cut`;
- `VerdictInv`: per transaction, what may be on disk given whether it is
  unassigned, running, acknowledged or in doubt (`Unsure`: `doubt` and `adrift`).

Each part has its own step lemma with one case per action (`TypeStep`,
`LockStep`, `CounterStep`, `LogStep`, `VerdictStep`); `NextInv` joins them,
`Invariance` is the temporal step, and each theorem draws its property from
`IndInv`. Three of the properties have exceptions, which run through `VerdictInv`:
`CommitSurvives` excepts `adrift`, `AbortSurvives` excepts `doubt`, `OneVerdict` both.
Each is needed: a transaction in `doubt` can be read as committed after a crash of
the process and be aborted after one of the machine, or come back as committed
after its Abort (`txn_in_doubt`).

`ManagerImplementsXacts` says that every step is one of `XactsInDoubt` or a stutter.
`absStatus` is the status the mapping shows, `Unsure` what it shows as in doubt.
`BeginMaps`, `FinishMaps`, `CutMaps` and `RestartMaps` give the abstract step: the return of
a Begin, the return of a Commit or Abort, a Commit that failed after its write or
wrote to a file that may be lost, and a Close or crash that ends the running
transactions (`CloseMaps`, `ProcessCrashMaps`, `CrashMaps`). At most the Commit under
way is found committed by that (`OneCommitting`), or what was in doubt.
Every other step stutters (`MapsToXacts`). `ManagerWithoutDoubt` follows: while
`Unsure` is empty each such step is one of `Xacts` (`CertainStep`).

`SessionProofs` proves, for any number of connections, tables, transactions and
crashes:

| Theorem | Property |
|---|---|
| `SessionsOwnRunning` | `RunningHasSession` |
| `AnswersStand` | `AnswerIsVerdict` |
| `TablesHaveFiles` | `TableHasFile` |
| `SnapshotsFit` | `SnapshotFits` |
| `NothingLeft` | `NoLeftoverFile` |
| `SessionsUseXacts` | `DoubtSpec` of `XactsInDoubt`, checked by no run |

`SessionsUseXacts` is the other half of `ManagerImplementsXacts`: what the sessions do
to the log is what the manager is shown to do. The assumptions are that the
bounds are naturals and that there is room for one transaction ID. That a table has
its file is not inductive: the RemoveFile that
would break it runs long after the DROP, so the invariant carries what a noted
removal means. Since an Abort may fail and the session goes on as if it had not,
the invariant speaks of the `fate` of a transaction: its verdict in the log, or
"aborted" from the moment its Abort failed. Its parts:

- `DoubtInv`: what is `stuck` runs, what is in doubt began;
- `LiveInv`: the fate agrees with what a session knows of its transaction
  (`Verdict`), no two sessions have one transaction, and none whose fate is open is
  without a session;
- `RowInv`: rows name transactions that began, OIDs are not reused;
- `TableInv`: a file is gone only because its creator has aborted or its dropper
  has committed, neither in doubt (`Doomed`), or it is in `bereft`;
- `AnswerInv`: an answer is the fate of its transaction unless that is in doubt;
- `PendingInv`: a file noted for removal at commit has a row this transaction
  has marked (or it has aborted), one noted for an abort a row only this
  transaction wrote; no two sessions note one created file; between CreateFile
  and WriteRow the file is there and the row is not;
- `SnapInv` and `GapInv`: a snapshot belongs to its session's transaction, and
  IDs have no gaps, so the next ID bounds every committed one;
- `LeftoverInv`, for `NothingLeft` alone: who made or removed each file.

`StepKinds` sorts the steps by what they do to log, catalog and session, so that
each part is proved for kinds of steps (`GoesOn`, `Begins`, `Finishes`) and for
the few actions that touch rows and files, instead of for each action. A crash
decides the running transactions and those in doubt; `CertainStep` says that no
step changes any other fate once it is decided, on which `TableInv` and
`AnswerInv` rest.

`MvccHeapProofs` proves, for any number of transactions, versions, statements and
any `Workloads`:

| Theorem | Property |
|---|---|
| `HintsAlwaysTrue` | `HintsAreTrue` |
| `ScanAlwaysExact` | `ScanIsExact` |
| `RepeatableReadAlways` | `RepeatableReadWrites` |
| `CommittedDeletesStay` | `CommittedDeleteStays` |
| `QualsAlwaysHold` | `QualsHold` |
| `NoUpdateIsLost` | `NoLostUpdate` |

It assumes what `HeapAssumption` says of the workloads and that there is room
for one transaction ID. `ScanIsExact` speaks of a finished scan; what carries it
there is what each part of the invariant says of a moment in between:

- `HeapInv`: a tuple names transactions that began, its hints are true, and while
  its inserter runs nobody else has deleted it;
- `SnapInv`: to the snapshot of a session every other transaction that has not
  ended is in progress, so a verdict reached later changes nothing it sees:
  `atSnap`, recorded when the snapshot was taken, is what it still judges live;
- `ScanFits`: what a scan holds so far is what it will return, cut to the blocks
  it has judged; hints judged and not yet written are true of the xmin and xmax
  they were judged for;
- `WriteFits`: targets passed the quals, under REPEATABLE READ are of the
  snapshot, and a new version not yet linked is nobody's but its session's;
- `SessionInv`, `OwnDeletes`: who runs is in a statement or between two, and what
  a REPEATABLE READ transaction deleted it had chosen.

The proof separates a step from its witnesses. `Acts(x)` says what any step of
session x does that others can see: it adds versions of its own, sets true
hints, or deletes over a deletion that came to nothing. From `Acts` alone
`HeapKeeps`, `SnapKeeps` and `OthersKeep` preserve the tuples and all other
sessions' parts; one lemma per action (`ReadBlockKeeps` to `FinishKeeps`) shows
that the action is such a step and keeps the part of its own session.

`NoLostUpdate` needs `CountInv` on top of that, and its parts need each other:

- `PairInv`: of two versions of a row one is not yet linked, is dead, or is the
  one that replaced the other: a row has one version at a time;
- `OwnInv`: while a transaction that has written a row runs, every version of the
  row is one it inserted or deleted, or is out of the game: nobody else updates
  the row before it ends, and its count can wait for its verdict;
- `NewInv`: a version not yet linked counts one update more than its target;
- `ValInv`: any other version that is not dead counts the committed updates of its
  row, and its inserter's, while that one runs.

`StampIsMine` is the heart of it: the stamp asks `Modify` again under the
exclusive lock, and its TMOk makes the target the row's one version. Without
that second question (`StampUnasked`) `PairInv` breaks. The count is a sum over
the transaction IDs; `TotalMoves` says what one changed term does to it, by an
argument on the first partial sum that is wrong, as the prover has no induction.

`UniqueIndexProofs` proves, for any number of transactions, keys and statements
and any `Workloads`, a `CREATE UNIQUE INDEX` beside writers included:

| Theorem | Property |
|---|---|
| `KeysAlwaysUnique` | `UniqueKeys` |
| `LiveAlwaysIndexed` | `LiveIsIndexed` |
| `BlamedAlwaysThere` | `BlamedWasThere` |

It assumes what `IndexAssumption` says of the workloads. That committed rows
have different keys is not inductive: two versions of a key may both be in the
heap, and in the tree, while their transactions run. The invariant says why
they will not both commit:

- `PairInv`: two entries of a key exclude one another: one of them is dead for
  whoever can use the index, or the transaction that inserted one has deleted
  the other, and both stand or fall together;
- `CoverInv`: a version has its entry, or needs none, or there is somebody who
  will write it before the version can be seen, or must abort;
- `LockFits`: under the insert lock every entry of the key is still to be
  judged or is no obstacle, so that the entry written when none is left to judge
  keeps `PairInv`; `BuildFits` says the same of the builder and the keys it has
  seen;
- `StmtFits`: a statement knows an index only if its own transaction created it
  or the creator has committed, so that nobody writes entries beside the builder
  (`OneIndexer`);
- `InsertFits`, `BlamedInv`, `VersionInv`, `CreatorInv`: what a version, an entry
  and an error name is there.

The layout is that of `MvccHeapProofs`: `Acts(x)` is what others see of a step of
x, `OthersKeep`, `PairKeeps` and `CoverKeeps` follow from it, and one lemma per
action (`WaitForWriterKeeps` to `FinishKeeps`) does the rest. The argument rests
on the order of the code: the check is repeated after the lock is taken, the
entry is written before it is released, and a deletion is overwritten only when
it came to nothing. `SmallestOf`, here for the first entry that is still to be
fetched, is the one fact about numbers that proof modules share, and each
has its copy: a nonempty set of naturals has a least element, from the
well-founded order of the library.

`BufferPoolProofs` proves, for any number of frames, goroutines, relations,
blocks and any cap of the usage counts:

| Theorem | Property |
|---|---|
| `PoolIsTyped` | `TypeOK` |
| `NoWriteIsLost` | `NoLostWrites` |
| `CommitsAreDurable` | `CommitIsDurable` |
| `SweepTakesTheFirst` | `SweepIsClock` |
| `PinsHoldPages` | `PinnedFrameStays` |
| `HalfChangesStayOffDisk` | `NoTornWrite` |

It assumes what `PoolAssumption` says: at least one frame, a cap of at least one,
disjoint sets of relations. The sweep is a recursive function, turn by turn.
`TurnsTo` says what such a function is, `TurnsAreDefined` that there is one of
every length, `TurnFits` what one turn does to each of three situations:
`Searching` (q full passes and r turns made, no frame evicted, each free frame
lowered by `Passes`), `Found`, `Stuck`. `AllTurnsFit` carries that to all turns:
not by the library's induction theorems, which no backend can instantiate, but
by looking at the first turn where it fails (`FirstOf`, from `SmallestOf`).
`SweepEnds` counts that the allowed turns are enough, which is the chapter's
claim that the sweep ends.

`NoLostWrites` and `CommitIsDurable` are about pages and bits; what makes them
inductive is the protocol of pins, locks and flags around them:

- `CacheFits`: table and frames name each other, cached blocks are in the file,
  frames never used are empty;
- `PinsFit`: the pins of a frame are the goroutines that hold it, so that the
  victim of the sweep is nobody's;
- `ClientsFit`: a frame in use keeps its page, and loses it only with its
  relation; FlushAll holds the frame its walk has come to;
- `LocksFit`: a writer excludes readers, and who holds the lock is in between;
- `PagesFit`: the last change of a page is in its frame, else on disk; one that is
  only in the frame is marked dirty or its writer is about to mark it; what the
  bits vouch for is stable, what is stable is on disk;
- `OwnsFit`: a session's own changes that are not on disk are in frames its walk
  has still to come by, and once the bit is next all of them are stable. This is
  where the order FlushAll, SyncAll, bit is needed, and the wait for the content
  lock of a frame being changed.

One lemma per action (`PinHitInv` to `UnlinkInv`) preserves the invariant;
`ContentsKeep` does the pages of all steps that leave a page alone or bring it to
disk (`PagesMove`), `QuietStep` those that move no page at all. For the two action
properties `Keeps` says what a step may do to frames in use and to the disk, and
`DiscardsFit`, that a discarded frame still held is of a relation being dropped,
is an invariant of its own.

`CatalogProofs` proves, for any number of sessions, names, transactions and
relations and any `Workloads`:

| Theorem | Property |
|---|---|
| `CacheStaysCurrent` | `CacheIsCurrent` |
| `NamesOnlyRace` | `NamesCollideOnlyInRaces` |
| `DDLIsAtomic` | `RelationsAreWhole` |

It assumes what `CatalogAssumption` says: natural bounds, workloads that count
statements and methods. All three are about one table of rows and the verdicts
on the transactions that wrote them, so the lemmas are too: what happens to a
table `R` under a log `st` when a transaction begins or ends (`Moves`), a row is
added (`Adds`) or stamped, with or without a new version (`Stamps`). Four layers,
each resting on those before it:

- `RowsInv`, for `CacheIsCurrent`. The table is sound (`Sound`): rows name
  transactions that began, a deleter saw what it deleted (`RowFits`), rows of one
  OID are versions of one pg_class row and at most one other row (`PairsFit`), and
  no two versions are seen together (`OneIsSeen`). A session fits the method it
  is in (`Fits`), two sessions create different OIDs (`Apart`). An entry, one
  still being loaded included, has what could be seen all the time and nothing
  that never could (`CacheInv`).
- `NamesInv`. If the creator of one relation knew the creator of another of its
  name, one of the two is dead or deleted by the other's creator (`NamesApart`).
  It lasts because a session between its check of a name and its insert still
  has found the name free (`NameFits`), and because a new version of a row comes
  after a committed one (`Based`).
- `WholeInv`. Everybody sees all of a relation or nothing, except for its OID
  while the method that writes it is under way (`Whole`, `Busy`). A transaction
  can commit then only with the rest of its work done, since `Plan` says that
  the tasks a drop has left delete what is left, and pg_class before the other
  row (`ClassFirst`, `Ordered`): two drops of one relation meet at its pg_class
  row, one waits, and the loser has not touched the rest.
- `FilesInv`. What is not dead has its file; a removal noted for the commit is
  of a relation whose rows this transaction has all deleted, one noted for the
  abort of one it created, and no two sessions note one created file.

`LookupIs` to `EndIs` say once what each action does and keep the table sound; a
lemma per kind of step then keeps each other part (`LookupLoads` to
`ReadsKeepCache` for the cache, `NamesOf...`, `WholeOf...`, `FilesOf...`).

`BTreeProofs` proves, for any number of keys, TIDs and pages and any
`Capacity` of at least three:

| Theorem | Property |
|---|---|
| `AckedAlwaysStored` | `AckedIsStored` |
| `TreeAlwaysSound` | `TreeIsSound` |
| `ScanAlwaysComplete` | `ScanIsComplete` |

All three assume what `BoundAssumption`, `WorkAssumption`, `CapacityAssumption` and
`RangeAssumption` say.

`AckedAlwaysStored`: `Stored` is what a walk along the leaves finds, so the
invariant must say where that walk starts, where it leads and what is on its way:

- `Shape`: an internal page leads to pages one level down, a page's right sibling
  is of its level, the metapage knows the level of the root, the keys of leaves
  are of inserts that were made;
- `ChainInv`: the downlinks of level 1 lead to leaves of the chain, so that a
  descent ends in one;
- `InsInv`, per step of the insert: the pages it came down are of the tree, each
  of its level (`OnPath`); what it has to place belongs on the page it is at
  (`ToPlace`); nothing leads to the new right page (`ToSplit`, `NotLed`), which
  has got the second half and the old right link before the left page is cut
  (`RightWritten`); from then on the entry is stored, whatever else fails
  (`IsSplit`, `RootReady`).

`LeftEndIs` finds the first leaf: the descent by the first downlinks is defined
and its pages are of the right levels (`PathIs`), from a recursive function
without induction as in `BufferPoolProofs` (`SmallestOf` and `IterationsExist`).
`ChainIs` says that `LeafChain` holds the first leaf, follows
every right link, and is in every set that does. That the search for the chain
has gone far enough after as many steps as there are pages is the pigeonhole of
`ChainCloses`. `ChainGrows` is the heart: if every page keeps its level and its
first downlink, and its right link leads where it did, if over one page more
(`Grows`), the chain loses no leaf. `Spliced`, `KeptFits` and `MovedFits` say that
an insert into a full page and the split of the result keep every item on one
of the two. One lemma per action (`PlaceStep` to `ScanStep`) does the rest. It
rests on the order of the writes: right page, left page, sibling, parent, and
the metapage after the new root.

`TreeAlwaysSound`: between the writes of one insert the pages are no sound tree: a
right page has its items and nothing leads to it, an item is owed to a parent that
does not have it yet. `SoundInv` therefore looks at the tree as it will be once the
insert has placed what it owes. `OwedTo` is the page that is to take `Owed`,
`Rows` are the items of the pages with that one in its place, `Tree` leaves
out a right page that the left page does not link yet, and `Tops` are the pages
without a downlink: the root, or the root and the sibling it has just been split
from. Of these it says, as long as no insert has failed (one that did may leave a
right page without a downlink for good, as `Check` would report):

- `TreeFits`: a page is in order, its items lie below its high key and its right
  sibling's at or above it (`Sides`); under a downlink lies a page whose items and
  high key keep what the downlink promises (`Down`, `Led`); no page has two
  downlinks (`OneLink`);
- `PrevFits`, `RootFits`, `SizeFits`: left links answer the right ones, the root
  flag is on the root, a page fits;
- `PathFits`, `SplitKnown`, `RightKnown`: the pages the insert came down still lead
  to what it has to place, and the two pages of a split are the halves of one.

Only three kinds of step change that tree. A leaf is to take an entry
(`LeafTakes`): the descent has come to the one leaf where it belongs (`Belongs`,
`PathBelongs`, one page at a time by `StepDown`, from what the binary search finds,
`FirstOnes` and `PositionIs`). A page is split (`SplitFits`): the left page, the
right page and the downlink owed to the parent change together, since what the
parent does not have yet counts as placed. A root is put over two pages
(`RootTakes`), or a first leaf under none (`OneLeaf`). Every other step leaves the
tree as it is (`TreeKept`, `SameSound`). `LeafInv`, that items of leaves lead
nowhere, is a small invariant beside it, and `CheckPasses` draws `TreeIsSound`:
with no insert under way nothing is owed, and the tree so seen is the one on the
pages.

`ScanAlwaysComplete`: a scan holds no lock between two leaves, so pages it came
through, the root it started at and the leaf it is to read next may be split
meanwhile. `ScanInv` says, as long as no insert has failed, where it stands:

- `ResultFits`: what it has found is increasing, below the upper bound and was
  inserted by someone;
- `DescentFits`: the page the descent is at is one where the lower bound belongs
  or a page to the left of it (`NotLeft`), from where right links lead there;
- `ChainFits`: the leaf to read next has a left sibling below whose high key lies
  all it has found, and every acknowledged entry it has yet to find lies at
  or above the high key of whichever page is that left sibling now;
- `EndFits`: at the end it has found all it had to.

A key belongs on one page of each level only (`OnePage`, by `StepUp` from a child
to its parent up to the topmost level), and an acknowledged entry is on the
leaf where it belongs (`AckedIsHeld`, which takes `AckedIsStored`): the leaf that is
not to its left and whose high key is above it is that one. `LoadFits` is the
read of one leaf: what it takes is in order and above what was found, and
what is between the bounds and not taken is at or above the leaf's high key.
A reader sees pages in the middle of an insert; `RawRows`, `RawFits` and
`RawInOrder` say that their items are some of those they will have (`Among`), and
`LedFits` that following the downlink of a page not yet told of a split below
leads to the left one of the two. The root on the metapage may have been
split since, but is the first page of its level (`RootFirst`). Inserts keep all
that: they put a page to the left of another only if the one that was there hands
on its high key (`LeftsStay`, `SameLefts`, `AddedLefts`, `InsertScan`). Once an
insert has failed half way the property says nothing: a right page without
a downlink is still reached along the chain, but `SoundInv` no longer holds.

`HeapFileProofs` proves about `HeapSpec`, for every page size, any relations with
any descriptors and rows, any number of sessions and crashes:

| Theorem | Property |
|---|---|
| `HeapStaysInOrder` | `HeapInv`, the inductive invariant |
| `PagesStaySound` | `PagesAreSound` |
| `RowsStayReadable` | `RowsStay` |
| `PageOpsAreExact` | `PageOpsKeepItems` |

It assumes what `PageAssumption` says, a page of whole eights with room for its
header, and what `HeapAssumption` says: descriptors are sequences of types, rows
fit their descriptors, and the rows a relation starts with fit a page. That
Insert takes a row is no assumption: a tuple too large fails, as in the code.

`PagesAreSound` is about headers and offsets, and takes three things besides:

- `IsPage`: the data area is cut into eights and no item is empty, without which
  the padding of one item may reach into the next;
- in `InsertOK`, that a block a session has extended a relation by is still zeroed
  when it comes to initialise it, so that Init takes nobody's items; for that, no
  other session fills a zeroed page (`ZeroPageIsFull`: AddItem finds no room on it)
  and none has the same block (`Apart`);
- `FilesOK`: the disk is behind the pool item by item (`Behind`), so that any mix
  of blocks a crash leaves is one of good pages, none with an item the pool did
  not have with the same bytes.

One lemma per method of a page says what it does to the items: `AddItemIs` and
`InsertItemIs` (both by `PlaceIs`: an item placed below all others touches none of
them), `PutItemIs`, `DeleteItemIs`, and `CompactIs`. That one is the hard one:
Compact lays the items out again from `special` downwards, as if nobody had
been there, and the new place of an item must be clear of the page's line
pointers and of every other. `BelowIs` says what the layout is, a recursive
function, and `BelowStaysAbove` that it ends at or above `upper`: the spans of the
first n items, padding included, do not meet, so their cardinality is the sum of
their lengths, and all of them lie between `upper` and `special`.

`RowsStay` needs that Deform undoes Form (`DeformForm`), for every descriptor
and row: Deform finds its way with a position of its own, and by an induction over
attributes that position is Form's (`EndsAre`). `FormIs` says that no two
attributes share an offset. What becomes of a tuple after Form is
in its header only, and `Body` is the rest: the ctid of the stored copy (`PutOn`),
`Marked` by a Delete or Update, a crash that takes the marks back.

The steps are one lemma each (`PickStep` to `CrashStep`), on top of what a page
written or added does to everything that is said of the files (`WrittenOK`,
`AddedOK`). `InitHolds` goes through the rows the relations start with: `LoadsExist`
says the recursive function that loads them is defined, `EmptyPageTakes` that a new
page takes every row that Insert does not refuse.

Only model-checked: liveness (`WaitersReleased`, `StatementsEnd`; out of
the prover's reach), that `Query` implements `HeapSpec`, and `EffectIsExact` and
`ResultIsExact` of `Query`, whose expressions, nodes and plans are recursive
operators, which the prover cannot take.

## Abstractions

- A crash of the machine loses writes that were not synced and directory entries
  and renames whose directory was not; one of the process loses only what is in
  memory. Both are in `TxnManager`. `Session` and `Query` have one action for
  both: in `Query` it may take back what was not flushed, in `Session` it decides
  the verdicts of transactions in doubt. `BufferPool` has none and says at each
  moment what would survive (`stable`). A repeated fsync is taken to
  write what the failed one did not. A transaction stays `adrift` even if the creation
  of a later segment file syncs the directory and so saves its own.
- Two-bit codes are one value per transaction; a neighbour's code in the same
  byte is not lost because the mutex covers read, change and write. Status is
  asked for the IDs that have been issued, and for the special ones.
- Tuples are records with a key or a counter for their data; a page of the heap
  holds one tuple; a page of the pool is the number of changes made to it.
- `UniqueIndex` has one index, keys that are not NULL (NULLs never conflict), a
  target chosen in one step and heap.Update in one step; `MvccHeap` has those
  steps. Aborted versions stay, as without vacuum they do.
- In `Session` pg_class rows are found by OID; pg_attribute and pg_index rows go
  with them. A crash ends every session at once, and the files of `base/` stay as
  they are. The chapters leave open whether the catalog's EndTransaction runs
  when a statement of a block fails or when the block ends: both are allowed.
  A removed file that a crash brings back would only be a leftover, and is not.
  Catalog pages of transactions that never committed may be lost in a crash;
  keeping them, aborted, looks the same to every reader.
- In `Catalog` one pg_attribute row stands for all of a table's, statistics are a
  row version, removed files go in one step with the verdict, and every lookup is
  by name: by OID, or of all tables, the steps are the same. Bootstrap is the
  initial state. The crash in the middle of it, after the control file is
  written and before the pool is flushed, leaves a directory that `Open` accepts
  and Bootstrap refuses; it runs once, alone, and is not modelled.
- In `Query` costs are not modelled, so any plan of the search may win, and the
  limit on the FROM list (`MaxJoinRelations`) is not; sort keys are ascending; a
  text value is its length; two keys of one parity share a hash; a root's Next is
  one step; the other session only inserts, since conflicts are `MvccHeap`'s.
- In `BTree` a page has room for `Capacity` items, its high key among them, and
  every split point that leaves two pages that fit may be chosen: the code picks
  one by bytes, and items differ in size. The writer's descent is one step, since
  nobody else changes pages. Bounds are pairs of a key and a TID below or above
  every heap TID. The ranges scanned are everything, `= 2` and `> 2`.
- Errors that mean a damaged file (ErrCorrupt and its like) are left out, as
  is the wrap of 32-bit IDs, which the chapter rules out of scope.

Not modelled: the lexer, the parser and the analyzer, pure functions of a text
with golden tests and no state; the costs; EXPLAIN; the bytes of the control file
and of values; formatting; the command line and the test runners.
`PROJECT.json` gives the reason for each.

## Plan

In order of what matters most:

1. Done: `Xacts`, `TxnManager`, its safety and its refinement proof; `Mvcc`;
   `MvccHeap`, `UniqueIndex` with Build, `BufferPool`, `Session` and `Catalog`,
   each with its proof; `BTree` with the proofs of `AckedIsStored`, `TreeIsSound`
   and `ScanIsComplete`; `Page`, `Tuple` and `HeapFile` with the proof for the heap by
   itself; `Executor`, `Planner`, `Query`.
2. To model: the remaining operators and casts of `expr`; DESC keys.
3. Abstract specifications to state: a table of versions that `MvccHeap`
   implements, in which a scan is one step; a map from keys to sets of TIDs that
   `BTree` implements; a store with atomic commits for `Session` over
   `BufferPool`.
4. To prove: that `UniqueIndex` and `MvccHeap` implement what `Query` takes from
   them, once those abstract specifications are stated.
