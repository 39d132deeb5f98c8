----------------------------- MODULE UniqueIndex -----------------------------
(***************************************************************************)
(* internal/index over one heap relation with one unique index, and the    *)
(* executor's apply that drives it: index.Check before the heap write,     *)
(* index.Insert after it under the relation's insert lock, a wait for      *)
(* another transaction with the lock released.  The index is there from    *)
(* the start, or a CREATE INDEX builds it while the others write.          *)
(*                                                                         *)
(* A heap tuple is a version with a key; the tree is the set of TIDs that  *)
(* have an entry.  A statement is INSERT (k), UPDATE SET a = k WHERE       *)
(* a = q or DELETE WHERE a = q under READ COMMITTED, and chooses its row   *)
(* in one step: MvccHeap has the scan, the hint bits and the steps of      *)
(* heap.Update this module takes as one.                                   *)
(***************************************************************************)
EXTENDS Mvcc, Sequences

CONSTANTS
    Workloads    \* bound: what the clients of a run do, see below

ASSUME IndexAssumption ==
    \A w \in Workloads :
        /\ w.keys \subseteq Nat            \* index keys, NULL not among them
        /\ w.rows \in Nat                  \* rows committed before the run,
        /\ 1 .. w.rows \subseteq w.keys    \* with the keys 1 .. rows
        /\ w.txns \in Nat                  \* transactions
        /\ w.calls \in Nat                 \* BEGINs and statements together
        /\ w.kinds \subseteq {"insert", "update", "delete", "build"}

NoTid == 0
NoKey == -1
Nobody == 0

VARIABLES
    heap,     \* the relation's versions, in TID order
    indexed,  \* TIDs with an entry in the tree
    lock,     \* the transaction that holds the relation's insert lock
    creator,  \* xmin of the index's catalog rows: InvalidXID before there are any
    proc,     \* where each session is in its statement
    load,     \* the workload, chosen at the start
    stmts,    \* statements sent so far
    \* History.
    blamed,   \* the version a unique violation of x was about
    blind     \* versions written, once a build had begun, by statements
              \* that had looked the relation up before

vars == <<status, heap, indexed, lock, creator, proc, load, stmts, blamed, blind>>

Off == [pc |-> "off", kind |-> "insert", key |-> NoKey, qual |-> NoKey, target |-> NoTid,
        new |-> NoTid, sees |-> FALSE, todo |-> {}, seen |-> {}, wait |-> InvalidXID]

At(x, pc) == proc[x].pc = pc /\ proc[x].wait = InvalidXID

Version(k, x, tid) == [key |-> k, xmin |-> x, xmax |-> InvalidXID, ctid |-> tid, hints |-> {}]

Init ==
    /\ XactInit
    /\ load \in Workloads
    /\ heap = [i \in 1 .. load.rows |-> Version(i, FrozenXID, i)]
    /\ creator \in {FrozenXID} \cup IF "build" \in load.kinds THEN {InvalidXID} ELSE {}
    /\ indexed = IF creator = FrozenXID THEN DOMAIN heap ELSE {}
    /\ lock = Nobody
    /\ proc = [x \in Xids |-> Off]
    /\ stmts = 0
    /\ blamed = [x \in Xids |-> NoTid]
    /\ blind = {}

Me(x) == [xmin |-> x, xmax |-> x, xip |-> {}, xid |-> x]   \* all Dirty and Modify look at

-----------------------------------------------------------------------------
CallsLeft == stmts + Cardinality(Assigned) < load.calls

Begin(x) ==
    /\ x = NextXid
    /\ x < FirstNormalXID + load.txns /\ CallsLeft
    /\ XactBegin(x)
    /\ proc' = [proc EXCEPT ![x].pc = "idle"]
    /\ UNCHANGED <<heap, indexed, lock, creator, load, stmts, blamed, blind>>

Finish(x, verdict) ==
    /\ IF verdict = "committed" THEN At(x, "idle") ELSE At(x, "idle") \/ At(x, "error")
    /\ XactFinish(x, verdict)
    /\ proc' = [proc EXCEPT ![x] = Off]
    /\ UNCHANGED <<heap, indexed, lock, creator, load, stmts, blamed, blind>>

Idle == [Off EXCEPT !.pc = "idle"]

\* What catalog.Lookup finds at the start of a statement.
SeesIndex(x) == creator = x \/ StatusOf(creator) = "committed"

Start(x, rec) ==
    /\ At(x, "idle") /\ CallsLeft /\ rec.kind \in load.kinds
    /\ stmts' = stmts + 1
    /\ proc' = [proc EXCEPT ![x] = rec]
    /\ UNCHANGED <<load, status, heap, indexed, lock, blamed, blind>>

StartInsert(x, k) ==
    /\ Start(x, [Off EXCEPT !.pc = IF SeesIndex(x) THEN "check" ELSE "write", !.key = k,
                            !.sees = SeesIndex(x)])
    /\ UNCHANGED creator

\* The scan of an UPDATE or DELETE; apply calls h.Lock before the check.
StartModify(x, kind, q, k) ==
    /\ At(x, "idle") /\ CallsLeft
    /\ \E i \in DOMAIN heap :
        /\ heap[i].key = q
        /\ Visible(Take(x), heap[i])
        /\ Start(x, [Off EXCEPT !.pc = IF kind = "update" THEN "lock" ELSE "write",
                                !.kind = kind, !.key = k, !.qual = q, !.target = i,
                                !.sees = SeesIndex(x)])
    /\ UNCHANGED creator

\* CREATE UNIQUE INDEX: the catalog rows and an empty tree, then index.Build.
StartBuild(x) ==
    /\ creator = InvalidXID
    /\ creator' = x
    /\ Start(x, [Off EXCEPT !.pc = "build", !.kind = "build", !.todo = DOMAIN heap])

-----------------------------------------------------------------------------
(* The heap's half: Lock, Delete, Update, and the row's next version.      *)

TM(x) == Modify(Me(x), heap[proc[x].target], proc[x].target)

Changes(x) == proc[x].kind \in {"update", "delete"}

WaitForWriter(x) ==
    /\ At(x, "lock") \/ (At(x, "write") /\ Changes(x))
    /\ TM(x) = "TMBeingModified"
    /\ proc' = [proc EXCEPT ![x].wait = heap[proc[x].target].xmax]
    /\ UNCHANGED <<heap, indexed, lock, blamed, blind>>

LockTarget(x) ==
    /\ At(x, "lock")
    /\ TM(x) = "TMOk"
    /\ proc' = [proc EXCEPT ![x].pc = IF proc[x].sees THEN "check" ELSE "write"]
    /\ UNCHANGED <<heap, indexed, lock, blamed, blind>>

\* ErrAlreadyDeleted under READ COMMITTED: the next version, if it still
\* passes the quals; ErrInvisible is the statement's error.
Follow(x) ==
    /\ At(x, "lock") \/ (At(x, "write") /\ Changes(x))
    /\ TM(x) \in {"TMUpdated", "TMDeleted", "TMInvisible"}
    /\ LET next == heap[proc[x].target].ctid IN
       proc' = [proc EXCEPT ![x] =
                  IF TM(x) = "TMInvisible" THEN [@ EXCEPT !.pc = "error"]
                  ELSE IF TM(x) = "TMUpdated" /\ heap[next].key = proc[x].qual
                  THEN [@ EXCEPT !.target = next,
                                 !.pc = IF proc[x].kind = "update" THEN "lock" ELSE "write"]
                  ELSE Idle]
    /\ UNCHANGED <<heap, indexed, lock, blamed, blind>>

\* Slip: an update that keeps the key writes no entry for its new version.
NeedsEntryIfMoved(x) == proc[x].sees /\ proc[x].key # proc[x].qual

NeedsEntry(x) == proc[x].sees

WriteHeap(x) ==
    /\ At(x, "write")
    /\ Changes(x) => TM(x) = "TMOk"
    /\ LET tid  == Len(heap) + 1
           kept == IF Changes(x) THEN [heap EXCEPT ![proc[x].target].xmax = x] ELSE heap
           linked == IF proc[x].kind = "update"
                     THEN [kept EXCEPT ![proc[x].target].ctid = tid] ELSE kept
       IN  IF proc[x].kind = "delete"
           THEN /\ heap' = kept
                /\ proc' = [proc EXCEPT ![x] = Idle]
                /\ UNCHANGED blind
           ELSE /\ heap' = Append(linked, Version(proc[x].key, x, tid))
                /\ proc' = IF NeedsEntry(x)
                           THEN [proc EXCEPT ![x].pc = "acquire", ![x].new = tid]
                           ELSE [proc EXCEPT ![x] = Idle]
                /\ blind' = IF ~proc[x].sees /\ creator # InvalidXID
                            THEN blind \cup {tid} ELSE blind
    /\ UNCHANGED <<indexed, lock, blamed>>

-----------------------------------------------------------------------------
(* CheckUnique: the entries of the key, each fetched and judged by itself. *)

Entries(k, except) == {i \in indexed : heap[i].key = k /\ i # except}

Check(x) ==
    /\ At(x, "check")
    /\ proc' = [proc EXCEPT ![x].pc = "fetch",
                            ![x].todo = Entries(proc[x].key, proc[x].target)]
    /\ UNCHANGED <<heap, indexed, lock, blamed, blind>>

\* Slip: index.Insert does not look again.
AcquireUnchecked(x) ==
    /\ At(x, "acquire")
    /\ lock = Nobody
    /\ lock' = x
    /\ proc' = [proc EXCEPT ![x].pc = "fetch", ![x].todo = {}]
    /\ UNCHANGED <<heap, indexed, blamed, blind>>

\* index.Insert takes the lock and repeats the check.
Acquire(x) ==
    /\ At(x, "acquire")
    /\ lock = Nobody
    /\ lock' = x
    /\ proc' = [proc EXCEPT ![x].pc = "fetch",
                            ![x].todo = Entries(proc[x].key, proc[x].target)]
    /\ UNCHANGED <<heap, indexed, blamed, blind>>

Released(x) == IF lock = x THEN Nobody ELSE lock

\* The scan yields the entries of a key in TID order, the heap its tuples.
First(x) == CHOOSE i \in proc[x].todo : \A j \in proc[x].todo : i <= j
Judged(x) == Dirty(Me(x), heap[First(x)])

\* Slip: the wait happens with the lock held.
FetchWaitsLocked(x) ==
    /\ At(x, "fetch") /\ proc[x].todo # {}
    /\ Judged(x).wait # InvalidXID
    /\ proc' = [proc EXCEPT ![x].wait = Judged(x).wait]
    /\ UNCHANGED <<heap, indexed, lock, blamed, blind>>

FetchWaits(x) ==
    /\ At(x, "fetch") /\ proc[x].todo # {}
    /\ Judged(x).wait # InvalidXID
    /\ proc' = [proc EXCEPT ![x].pc = IF lock = x THEN "acquire" ELSE "check",
                            ![x].todo = {}, ![x].wait = Judged(x).wait]
    /\ lock' = Released(x)
    /\ UNCHANGED <<heap, indexed, blamed, blind>>

FetchConflicts(x) ==
    /\ At(x, "fetch") /\ proc[x].todo # {}
    /\ Judged(x).wait = InvalidXID /\ Judged(x).live
    /\ proc' = [proc EXCEPT ![x].pc = "error", ![x].todo = {}]
    /\ blamed' = [blamed EXCEPT ![x] = First(x)]
    /\ lock' = Released(x)
    /\ UNCHANGED <<heap, indexed, blind>>

FetchDead(x) ==
    /\ At(x, "fetch") /\ proc[x].todo # {}
    /\ Judged(x).wait = InvalidXID /\ ~Judged(x).live
    /\ proc' = [proc EXCEPT ![x].todo = @ \ {First(x)}]
    /\ UNCHANGED <<heap, indexed, lock, blamed, blind>>

CheckPasses(x) ==
    /\ At(x, "fetch") /\ proc[x].todo = {}
    /\ lock # x
    /\ proc' = [proc EXCEPT ![x].pc = "write"]
    /\ UNCHANGED <<heap, indexed, lock, blamed, blind>>

WriteEntry(x) ==
    /\ At(x, "fetch") /\ proc[x].todo = {}
    /\ lock = x
    /\ indexed' = indexed \cup {proc[x].new}
    /\ lock' = Nobody
    /\ proc' = [proc EXCEPT ![x] = Idle]
    /\ UNCHANGED <<heap, blamed, blind>>

-----------------------------------------------------------------------------
(* index.Build of a unique index: every version, in heap order.            *)

\* buildTuple: wait and fetch again, or refuse a second live tuple of a key,
\* or write the entry; what an aborted transaction inserted has none.
BuildTuple(x) ==
    /\ At(x, "build") /\ proc[x].todo # {}
    /\ LET i == First(x)
           t == heap[i]
           twice == Judged(x).live /\ t.key \in proc[x].seen
           skip  == ~Judged(x).live /\ Modify(Me(x), t, i) = "TMInvisible"
       IN  IF Judged(x).wait # InvalidXID
           THEN /\ proc' = [proc EXCEPT ![x].wait = Judged(x).wait]
                /\ UNCHANGED indexed
           ELSE /\ proc' = IF twice THEN [proc EXCEPT ![x] = [Off EXCEPT !.pc = "error"]]
                           ELSE [proc EXCEPT
                                   ![x].todo = @ \ {i},
                                   ![x].seen = IF Judged(x).live THEN @ \cup {t.key} ELSE @]
                /\ indexed' = IF twice \/ skip THEN indexed ELSE indexed \cup {i}
    /\ UNCHANGED <<heap, lock, blamed, blind>>

EndBuild(x) ==
    /\ At(x, "build") /\ proc[x].todo = {}
    /\ proc' = [proc EXCEPT ![x] = Idle]
    /\ UNCHANGED <<heap, indexed, lock, blamed, blind>>

Wake(x) ==
    /\ proc[x].wait # InvalidXID
    /\ StatusOf(proc[x].wait) # "running"
    /\ proc' = [proc EXCEPT ![x].wait = InvalidXID]
    /\ UNCHANGED <<heap, indexed, lock, blamed, blind>>

-----------------------------------------------------------------------------
\* The steps of a session, apart from the client's choice of statements.
Step(x) ==
    /\ \/ WaitForWriter(x) \/ LockTarget(x) \/ Follow(x) \/ WriteHeap(x) \/ Check(x)
       \/ FetchWaits(x) \/ FetchConflicts(x) \/ FetchDead(x) \/ CheckPasses(x)
       \/ WriteEntry(x) \/ BuildTuple(x) \/ EndBuild(x) \/ Wake(x)
    /\ UNCHANGED <<status, creator, load, stmts>>

Lock(x) == Acquire(x) /\ UNCHANGED <<status, creator, load, stmts>>

Next ==
    \E x \in Xids :
        \/ Begin(x) \/ Finish(x, "committed") \/ Finish(x, "aborted")
        \/ \E k \in load.keys : StartInsert(x, k)
        \/ \E q, k \in load.keys : StartModify(x, "update", q, k)
        \/ \E q \in load.keys : StartModify(x, "delete", q, NoKey)
        \/ StartBuild(x)
        \/ Lock(x) \/ Step(x)

Spec == Init /\ [][Next]_vars

\* Sessions run, the insert lock is handed on (a Go mutex starves nobody),
\* and every client in the end commits or rolls back.
FairSpec ==
    /\ Spec
    /\ \A x \in Xids : /\ WF_vars(Step(x))
                       /\ SF_vars(Lock(x))
                       /\ WF_vars(Finish(x, "committed") \/ Finish(x, "aborted"))

-----------------------------------------------------------------------------
\* What statements that look the table up now take to be the table's rows,
\* less those written beside a build.
Live(i) == /\ StatusOf(heap[i].xmin) = "committed"
           /\ heap[i].xmax = InvalidXID \/ StatusOf(heap[i].xmax) # "committed"
           /\ StatusOf(creator) = "committed" /\ i \notin blind

\* The point of the index: of the committed, not deleted versions no two
\* have the same key, however checks, writes, verdicts and a CREATE INDEX
\* interleave.
UniqueKeys ==
    \A i, j \in DOMAIN heap : Live(i) /\ Live(j) /\ heap[i].key = heap[j].key => i = j

\* The tree is in step with the heap: a version others can see has its
\* entry, so an index scan finds what a heap scan finds; a version that was
\* being written when a CREATE INDEX began has it too.
LiveIsIndexed == \A i \in DOMAIN heap : Live(i) => i \in indexed

\* A duplicate key error is never about a row that turns out not to have
\* existed: the version it names was committed, or the statement's own.
BlamedWasThere ==
    \A x \in Xids : blamed[x] # NoTid =>
        heap[blamed[x]].xmin = x \/ StatusOf(heap[blamed[x]].xmin) = "committed"

\* An UPDATE that leaves the key of its row alone has no duplicate key error
\* (ch. 13: "a row updated to its own key succeeds"; ch. 17: h.Lock comes
\* before the check "so that the check does not count a committed new version
\* the update is about to replace").
OwnKeySucceeds ==
    \A x \in Xids : At(x, "error") /\ blamed[x] # NoTid /\ proc[x].kind = "update"
        => heap[proc[x].target].key # proc[x].key

\* Transactions that wait for one another in a circle, with whoever waits
\* for them: there is no deadlock detection, so these stay as they are.
Deadlocked(x) == \E S \in SUBSET Running : x \in S /\ \A y \in S : proc[y].wait \in S

\* Every statement ends, in success or in an error, unless its transaction
\* is in a circle of waits for verdicts: the insert lock never closes one,
\* because a wait is made with the lock released.
StatementsEnd ==
    \A x \in Xids : proc[x].pc \notin {"off", "idle", "error"}
                        ~> (proc[x].pc \in {"off", "idle", "error"} \/ Deadlocked(x))

=============================================================================
