------------------------------- MODULE Catalog -------------------------------
(***************************************************************************)
(* internal/catalog under concurrent sessions: the rows of pg_class,       *)
(* pg_attribute and pg_index behind every relation, the order in which the *)
(* methods read and write them, and each session's relation cache.  A      *)
(* method holds its catalog's mutex, but every session has a catalog of    *)
(* its own, and every scan a snapshot of its own: other sessions come in   *)
(* between any two steps.  A step is one scan or one row written.          *)
(*                                                                         *)
(* One pg_attribute row stands for all those of a table; statistics are    *)
(* the row version that has them.  Files are removed in one step with the  *)
(* verdict: Session has the steps and the crashes between them.            *)
(***************************************************************************)
EXTENDS Mvcc, SequencesExt

CONSTANTS
    Sessions,        \* connections, each with a catalog
    Names,           \* relation names
    Workloads,       \* bounds: the statements of all sessions and the methods they
                     \* call that write, chosen at the start; the last OID; the
    MaxOid,          \* relations one statement looks up
    MaxCached

ASSUME CatalogAssumption ==
    /\ MaxOid \in Nat /\ MaxCached \in Nat
    /\ Workloads \subseteq [statements : Nat, methods : Nat]

VARIABLES
    rows,        \* the rows of the three catalogs, in TID order
    files,       \* the relation files
    nextOid,     \* the OID counter
    ss,          \* each session: its transaction and the method it is in
    cache,       \* Catalog.cache of each session, by name
    pending,     \* Catalog.pending of each session
    left,        \* statements and methods left of the workload
    since        \* history: the rows a session could see at some moment (ever)
                 \* and at every moment (always) since its cache was to be dropped

vars == <<status, rows, files, nextOid, ss, cache, pending, left, since>>

FirstUserOid == 2
None == ""
Row(cat, oid, name, kind, rel, primary, xid, knew) ==
    [cat |-> cat, oid |-> oid, name |-> name, kind |-> kind, rel |-> rel,
     primary |-> primary, xmin |-> xid, xmax |-> InvalidXID, ctid |-> 0, hints |-> {},
     creator |-> xid, knew |-> knew]

\* The rows of a relation, in the order they are written.  knew is history:
\* the transactions the check of the name saw as committed, or its own.
RowsOf(r, oid, xid) ==
    <<Row("class", oid, r.name, r.kind, 0, FALSE, xid, r.knew),
      IF r.kind = "table" THEN Row("attr", oid, None, None, 0, FALSE, xid, {})
      ELSE Row("index", oid, None, None, r.rel, r.primary, xid, {})>>

NoNew   == [name |-> None, kind |-> None, rel |-> 0, primary |-> FALSE, knew |-> {}]
NoInfo  == [class |-> 0, attrs |-> {}, indexes |-> {}, names |-> {}]
NoCache == [n \in {} |-> NoInfo]
Idle    == [tx |-> InvalidXID, pc |-> "idle", wait |-> InvalidXID, new |-> NoNew,
            todo |-> <<>>, gone |-> {}, name |-> None, info |-> NoInfo]

At(s, pc)    == ss[s].pc = pc /\ ss[s].wait = InvalidXID
Goto(s, pc)  == ss' = [ss EXCEPT ![s].pc = pc]
Seen(s)      == LET snap == Take(ss[s].tx) IN {i \in DOMAIN rows : Visible(snap, rows[i])}
Scan(s, cat) == {i \in Seen(s) : rows[i].cat = cat}
ByName(s, n) == {i \in Scan(s, "class") : rows[i].name = n}
ByOid(s, o)  == {i \in Scan(s, "class") : rows[i].oid = o}
First(S)     == CHOOSE i \in S : \A j \in S : i <= j
OnlySession  == UNCHANGED <<status, rows, files, nextOid, cache, pending, left>>
Dropped(s)   == cache' = [cache EXCEPT ![s] = NoCache]

\* Bootstrap and, committed since, a table with an index.
Init ==
    /\ XactInit
    /\ \E primary \in BOOLEAN :
          rows = RowsOf([NoNew EXCEPT !.name = "pg_class", !.kind = "table"], 1, BootstrapXID)
              \o RowsOf([NoNew EXCEPT !.name = "t", !.kind = "table"], 2, FrozenXID)
              \o RowsOf([NoNew EXCEPT !.name = "i", !.kind = "index", !.rel = 2,
                                      !.primary = primary], 3, FrozenXID)
    /\ files = 1 .. 3 /\ nextOid = 4
    /\ ss = [s \in Sessions |-> Idle]
    /\ cache = [s \in Sessions |-> NoCache]
    /\ pending = [s \in Sessions |-> {}]
    /\ left \in Workloads
    /\ since = [s \in Sessions |-> [ever |-> {}, always |-> DOMAIN rows]]

-----------------------------------------------------------------------------
(* Statements, and what they look up: Lookup, LookupOID and Tables.        *)

\* Slip: the cache is left from the statement before.
StartStatementKeeps(s) ==
    /\ At(s, "idle") /\ left.statements > 0
    /\ left' = [left EXCEPT !.statements = @ - 1]
    /\ IF ss[s].tx # InvalidXID THEN Goto(s, "run") /\ UNCHANGED status
       ELSE \E x \in Xids : /\ x = NextXid /\ XactBegin(x)
                            /\ ss' = [ss EXCEPT ![s].tx = x, ![s].pc = "run"]
    /\ UNCHANGED <<rows, files, nextOid, cache, pending>>

\* Session.statement: a transaction if there is none, then Invalidate.
StartStatement(s) ==
    /\ At(s, "idle") /\ left.statements > 0
    /\ left' = [left EXCEPT !.statements = @ - 1]
    /\ IF ss[s].tx # InvalidXID THEN Goto(s, "run") /\ UNCHANGED status
       ELSE \E x \in Xids : /\ x = NextXid /\ XactBegin(x)
                            /\ ss' = [ss EXCEPT ![s].tx = x, ![s].pc = "run"]
    /\ Dropped(s)
    /\ UNCHANGED <<rows, files, nextOid, pending>>

\* findClass; a cached name needs no scan, a failed lookup caches nothing.
Lookup(s, n) ==
    /\ At(s, "run") /\ n \notin DOMAIN cache[s]
    /\ Cardinality(DOMAIN cache[s]) < MaxCached
    /\ IF ByName(s, n) = {} THEN Goto(s, "failed")
       ELSE ss' = [ss EXCEPT ![s].pc = "attrs", ![s].name = n,
                             ![s].info = [NoInfo EXCEPT !.class = First(ByName(s, n))]]
    /\ OnlySession

Remember(s, info) ==
    /\ cache' = [cache EXCEPT ![s] = [n \in DOMAIN @ \cup {ss[s].name} |->
                                        IF n = ss[s].name THEN info ELSE @[n]]]
    /\ ss' = [ss EXCEPT ![s].pc = "run", ![s].name = None, ![s].info = NoInfo]

\* An index has no attributes and no indexes.
LoadAttributes(s) ==
    /\ At(s, "attrs")
    /\ LET class == rows[ss[s].info.class]
           info  == [ss[s].info EXCEPT
                       !.attrs = {i \in Scan(s, "attr") : rows[i].oid = class.oid}]
       IN  IF class.kind = "index" THEN Remember(s, info)
           ELSE ss' = [ss EXCEPT ![s].pc = "indexes", ![s].info = info] /\ UNCHANGED cache
    /\ UNCHANGED <<status, rows, files, nextOid, pending, left>>

LoadIndexes(s) ==
    /\ At(s, "indexes")
    /\ ss' = [ss EXCEPT ![s].pc = "names", ![s].info.indexes =
                {i \in Scan(s, "index") : rows[i].rel = rows[ss[s].info.class].oid}]
    /\ OnlySession

\* The names of the indexes, in a scan of pg_class of their own.
LoadNames(s) ==
    /\ At(s, "names")
    /\ Remember(s, [ss[s].info EXCEPT !.names =
          {i \in Scan(s, "class") : \E j \in ss[s].info.indexes : rows[i].oid = rows[j].oid}])
    /\ UNCHANGED <<status, rows, files, nextOid, pending, left>>

EndStatement(s) ==
    /\ At(s, "run")
    /\ Goto(s, "idle")
    /\ OnlySession

\* The OIDs the statement has bound.
Bound(s, kind) == {rows[cache[s][n].class].oid :
                      n \in {n \in DOMAIN cache[s] : rows[cache[s][n].class].kind = kind}}

-----------------------------------------------------------------------------
(* CreateTable and CreateIndex.                                            *)

Call(s) ==
    /\ At(s, "run") /\ left.methods > 0
    /\ left' = [left EXCEPT !.methods = @ - 1]

\* Too many columns, or one twice, before anything else.
CreateTable(s, n) ==
    /\ Call(s)
    /\ \/ ss' = [ss EXCEPT ![s].pc = "exists",
                         ![s].new = [NoNew EXCEPT !.name = n, !.kind = "table"]]
       \/ Goto(s, "failed")
    /\ UNCHANGED <<status, rows, files, nextOid, cache, pending>>

\* The table is found again, by its OID.
CreateIndex(s, n) ==
    /\ Call(s)
    /\ \E o \in Bound(s, "table") :
          IF ByOid(s, o) = {} \/ o < FirstUserOid THEN Goto(s, "failed")
          ELSE ss' = [ss EXCEPT ![s].pc = "exists",
                        ![s].new = [NoNew EXCEPT !.name = n, !.kind = "index",
                                                 !.rel = o]]
    /\ UNCHANGED <<status, rows, files, nextOid, cache, pending>>

\* Slip: a table and an index may share a name.
TakenByKind(s) == {i \in ByName(s, ss[s].new.name) : rows[i].kind = ss[s].new.kind}

Taken(s) == ByName(s, ss[s].new.name)

Exists(s) ==
    /\ At(s, "exists")
    /\ IF Taken(s) # {} THEN Goto(s, "failed")
       ELSE ss' = [ss EXCEPT ![s].pc = "create",
                     ![s].new.knew = {x \in Xids : status[x] = "committed"} \cup
                                     {InvalidXID, BootstrapXID, FrozenXID, ss[s].tx}]
    /\ OnlySession

\* newOID, the file, the note for an abort; then the rows.
Create(s) ==
    /\ At(s, "create") /\ nextOid <= MaxOid
    /\ nextOid' = nextOid + 1
    /\ files' = files \cup {nextOid}
    /\ pending' = [pending EXCEPT ![s] = @ \cup {[oid |-> nextOid, atCommit |-> FALSE]}]
    /\ ss' = [ss EXCEPT ![s].pc = "write", ![s].new = NoNew, ![s].todo =
                LET new == RowsOf(ss[s].new, nextOid, ss[s].tx)
                IN  [i \in 1 .. 2 |-> [do |-> "insert", row |-> new[i], tid |-> 0, oid |-> 0]]]
    /\ UNCHANGED <<status, rows, cache, left>>

-----------------------------------------------------------------------------
(* DropTable, DropIndex and UpdateStats.  What is left to do is a sequence *)
(* of rows to insert, delete or update and of scans that find more.        *)

NoRow == Row(None, 0, None, None, 0, FALSE, 0, {})
Task(do, tid, oid) == [do |-> do, row |-> NoRow, tid |-> tid, oid |-> oid]

Writes(s, todo, gone) ==
    ss' = [ss EXCEPT ![s].pc = "write", ![s].todo = todo, ![s].gone = gone]

\* The indexes first, then the table's own rows.
DropTable(s, n) ==
    /\ Call(s)
    /\ LET i == First(ByName(s, n))
           o == rows[i].oid
       IN  IF ByName(s, n) = {} \/ rows[i].kind = "index" \/ o < FirstUserOid
           THEN Goto(s, "failed")
           ELSE Writes(s, <<Task("indexes", 0, o), Task("delete", i, 0), Task("attrs", 0, o)>>,
                       {o})
    /\ UNCHANGED <<status, rows, files, nextOid, cache, pending>>

DropIndex(s, n) ==
    /\ Call(s)
    /\ LET i == First(ByName(s, n))
       IN  IF ByName(s, n) = {} \/ rows[i].kind = "table" THEN Goto(s, "failed")
           ELSE Writes(s, <<Task("row", i, rows[i].oid)>>, {rows[i].oid})
    /\ UNCHANGED <<status, rows, files, nextOid, cache, pending>>

\* ANALYZE, for the table and then for its indexes: one OID here.
UpdateStats(s) ==
    /\ Call(s)
    /\ \E o \in Bound(s, "table") \cup Bound(s, "index") :
          IF ByOid(s, o) = {} THEN Goto(s, "failed")
          ELSE Writes(s, <<Task("update", First(ByOid(s, o)), 0)>>, {})
    /\ UNCHANGED <<status, rows, files, nextOid, cache, pending>>

Now(s)       == Head(ss[s].todo)
Doing(s, do) == At(s, "write") /\ ss[s].todo # <<>> /\ Now(s).do = do
Then(s, more) == [ss EXCEPT ![s].todo = more \o Tail(@)]

Deletes(found) ==
    LET tids == SetToSeq(found) IN [k \in 1 .. Len(tids) |-> Task("delete", tids[k], 0)]

\* Slip: the pg_class row of an index of the table stays.
IndexTasksShort(s, found) == Deletes(found)

\* dropIndex for each: find its pg_class row, delete it, then the pg_index row.
IndexTasks(s, found) ==
    LET tids == SetToSeq(found)
        tid(k) == tids[(k + 1) \div 2]
    IN  [k \in 1 .. 2 * Len(tids) |-> IF k % 2 = 1 THEN Task("class", 0, rows[tid(k)].oid)
                                      ELSE Task("delete", tid(k), 0)]

FindIndexes(s) ==
    /\ Doing(s, "indexes")
    /\ LET found == {j \in Scan(s, "index") : rows[j].rel = Now(s).oid}
       IN  ss' = [Then(s, IndexTasks(s, found)) EXCEPT
                        ![s].gone = @ \cup {rows[j].oid : j \in found}]
    /\ OnlySession

FindAttributes(s) ==
    /\ Doing(s, "attrs")
    /\ LET found == {j \in Scan(s, "attr") : rows[j].oid = Now(s).oid}
       IN  ss' = Then(s, Deletes(found))
    /\ OnlySession

FindClass(s) ==
    /\ Doing(s, "class")
    /\ LET found == ByOid(s, Now(s).oid)
       IN  IF found = {} THEN Goto(s, "failed")
           ELSE ss' = Then(s, <<Task("delete", First(found), 0)>>)
    /\ OnlySession

\* ErrDependentObjects for a primary key, before either row is deleted.
FindIndexRow(s) ==
    /\ Doing(s, "row")
    /\ LET found == {j \in Scan(s, "index") : rows[j].oid = Now(s).oid}
       IN  IF found = {} \/ \E j \in found : rows[j].primary THEN Goto(s, "failed")
           ELSE ss' = Then(s, <<Task("delete", Now(s).tid, 0), Task("delete", First(found), 0)>>)
    /\ OnlySession

InsertRow(s) ==
    /\ Doing(s, "insert")
    /\ rows' = Append(rows, Now(s).row)
    /\ ss' = Then(s, <<>>)
    /\ UNCHANGED <<status, files, nextOid, cache, pending, left>>

TM(s) == Modify(Take(ss[s].tx), rows[Now(s).tid], 0)

\* heap.Delete and, with the new version after it, heap.Update.
WriteRow(s) ==
    /\ Doing(s, "delete") \/ Doing(s, "update")
    /\ TM(s) = "TMOk"
    /\ LET i == Now(s).tid
           stamped == [rows EXCEPT ![i].xmax = ss[s].tx]
       IN  rows' = IF Now(s).do = "delete" THEN stamped
                   ELSE Append(stamped, [rows[i] EXCEPT !.xmin = ss[s].tx, !.xmax = InvalidXID])
    /\ ss' = Then(s, <<>>)
    /\ UNCHANGED <<status, files, nextOid, cache, pending, left>>

RowWaits(s) ==
    /\ Doing(s, "delete") \/ Doing(s, "update")
    /\ TM(s) = "TMBeingModified"
    /\ ss' = [ss EXCEPT ![s].wait = rows[Now(s).tid].xmax]
    /\ OnlySession

Wake(s) ==
    /\ ss[s].wait # InvalidXID /\ StatusOf(ss[s].wait) # "running"
    /\ ss' = [ss EXCEPT ![s].wait = InvalidXID]
    /\ OnlySession

\* "tuple concurrently updated".
RowFails(s) ==
    /\ Doing(s, "delete") \/ Doing(s, "update")
    /\ TM(s) \notin {"TMOk", "TMBeingModified"}
    /\ Goto(s, "failed")
    /\ OnlySession

\* The method returns: the dropped files are noted, the cache goes.
Done(s) ==
    /\ At(s, "write") /\ ss[s].todo = <<>>
    /\ pending' = [pending EXCEPT ![s] =
                     @ \cup {[oid |-> o, atCommit |-> TRUE] : o \in ss[s].gone}]
    /\ ss' = [ss EXCEPT ![s].pc = "idle", ![s].gone = {}]
    /\ Dropped(s)
    /\ UNCHANGED <<status, rows, files, nextOid, left>>

\* The verdict, then EndTransaction.
End(s, verdict) ==
    /\ ss[s].tx # InvalidXID
    /\ At(s, "idle") \/ (At(s, "failed") /\ verdict = "aborted")
    /\ XactFinish(ss[s].tx, verdict)
    /\ files' = files \ {p.oid : p \in
                           {p \in pending[s] : p.atCommit = (verdict = "committed")}}
    /\ pending' = [pending EXCEPT ![s] = {}]
    /\ ss' = [ss EXCEPT ![s] = Idle]
    /\ Dropped(s)
    /\ UNCHANGED <<rows, nextOid, left>>

-----------------------------------------------------------------------------
Reads(s)  == \/ \E n \in Names : Lookup(s, n)
             \/ LoadAttributes(s) \/ LoadIndexes(s) \/ LoadNames(s) \/ EndStatement(s)
Methods(s) ==
    \/ \E n \in Names : \/ CreateTable(s, n) \/ CreateIndex(s, n)
                        \/ DropTable(s, n) \/ DropIndex(s, n)
    \/ UpdateStats(s)
Steps(s)  == \/ Exists(s) \/ Create(s) \/ FindIndexes(s) \/ FindAttributes(s) \/ FindClass(s)
             \/ FindIndexRow(s) \/ InsertRow(s) \/ WriteRow(s) \/ RowWaits(s) \/ RowFails(s)
             \/ Wake(s)
Drops(s)  == StartStatement(s) \/ Done(s) \/ End(s, "committed") \/ End(s, "aborted")

\* History: what each session could see before this step.
Watch(dropped) ==
    since' = [s \in Sessions |->
                LET seen == Seen(s)
                IN  IF s \in dropped THEN [ever |-> {}, always |-> DOMAIN rows]
                    ELSE [ever |-> since[s].ever \cup seen, always |-> since[s].always \cap seen]]

Next == \E s \in Sessions : \/ (Reads(s) \/ Methods(s) \/ Steps(s)) /\ Watch({})
                            \/ Drops(s) /\ Watch({s})

Spec == Init /\ [][Next]_vars

-----------------------------------------------------------------------------
Live == {i \in DOMAIN rows : /\ StatusOf(rows[i].xmin) = "committed"
                             /\ rows[i].xmax = 0 \/ StatusOf(rows[i].xmax) # "committed"}

\* DDL is all or nothing: a relation has one live pg_class row, with its
\* pg_attribute or its pg_index row and its file, or nothing live at all,
\* whichever methods met on its rows and whichever of them failed half way.
RelationsAreWhole ==
    LET live == {rows[i] : i \in Live}
        of(oid, cat) == {i \in Live : rows[i].oid = oid /\ rows[i].cat = cat}
    IN  \A r \in live :
            /\ r.oid \in files
            /\ Cardinality(of(r.oid, "class")) = 1
            /\ Cardinality(of(r.oid, "attr") \cup of(r.oid, "index")) = 1
            /\ r.cat = "class" => (r.kind = "table") = (of(r.oid, "attr") # {})

\* Tables and indexes share one name space: two live relations of one name
\* were both being created before either was committed, which the chapter
\* rules out of scope (17-mvcc/README.md:919), and in no other way.
NamesCollideOnlyInRaces ==
    \A i, j \in {i \in Live : rows[i].cat = "class"} :
        i # j /\ rows[i].name = rows[j].name 
            => rows[i].creator \notin rows[j].knew /\ rows[j].creator \notin rows[i].knew

\* What a statement finds in its relation cache is no older than the
\* statement, its session's last DDL included: every row in an entry was
\* there at some moment since, and every column or index that was there all
\* the time is in it, so that an INSERT maintains each committed index.
CacheIsCurrent ==
    \A s \in Sessions : \A n \in DOMAIN cache[s] :
        LET info  == cache[s][n]
            parts == {info.class} \cup info.attrs \cup info.indexes \cup info.names
            oid   == rows[info.class].oid
            seen  == Seen(s)
        IN  /\ parts \subseteq since[s].ever \cup seen
            /\ \A i \in since[s].always \cap seen :
                  \/ rows[i].cat # "index" /\ rows[i].oid = oid
                  \/ rows[i].cat = "index" /\ rows[i].rel = oid
                  => i \in parts

=============================================================================
