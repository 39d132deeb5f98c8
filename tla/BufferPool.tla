----------------------------- MODULE BufferPool -----------------------------
(***************************************************************************)
(* internal/bufmgr over internal/smgr, and what a committing session does  *)
(* with them: FlushAll, SyncAll, then the commit bit.  Clients pin pages,  *)
(* change them under the content lock, mark them dirty and commit; a       *)
(* relation is dropped under them.                                         *)
(*                                                                         *)
(* A page's content is the number of changes it has had.  A step is what   *)
(* happens under the pool's mutex in one go, disk I/O included.            *)
(***************************************************************************)
EXTENDS Integers, FiniteSets, FiniteSetsExt

CONSTANTS
    NFrames,        \* frames of the pool
    MaxUsageCount,  \* cap of the usage count
    Clients,        \* goroutines that use the pool
    Kept, Dropped,  \* relations: some stay, some are dropped during the run
    MaxBlocks,      \* bound: blocks a kept relation may grow to; a dropped one has one
    MaxWrites,      \* bound: changes made to a page
    MaxFailures,    \* bound: reads, writes and syncs of the store that fail
    MaxWork         \* bound: changes to kept pages, failures and drops

ASSUME PoolAssumption ==
    /\ NFrames \in Nat \ {0} /\ MaxUsageCount \in Nat \ {0}
    /\ MaxBlocks \in Nat \ {0} /\ MaxWrites \in Nat
    /\ Kept \cap Dropped = {} /\ MaxFailures \in Nat /\ MaxWork \in Nat

Frames  == 0 .. NFrames - 1
NoFrame == -1
Rels    == Kept \cup Dropped
Pages   == (Kept \X (0 .. MaxBlocks - 1)) \cup (Dropped \X {0})
KeptPages == {p \in Pages : p[1] \in Kept}
NoPage  == <<>>
Nobody  == {}

Rel(page) == page[1]

VARIABLES
    frames,  \* the Buffers: tag, valid, pins, usage, dirty, and the page
    table,   \* Pool.table: the frame of each cached page
    nused,   \* frames that have ever held a page
    hand,    \* the clock hand
    writer,  \* holder of each frame's content lock, exclusive
    readers, \* holders of it, shared
    files,   \* relations whose file exists
    nblocks, \* blocks of each file
    disk,    \* what a read of each block returns
    stable,  \* what a crash leaves of each kept block at least
    failures,\* failed reads, writes and syncs so far
    dropping,\* relations EndTransaction has discarded the buffers of
    client,  \* where each client is
    \* History.
    written, \* changes made to each kept page
    vouched  \* the content of each that commit bits vouch for

poolVars  == <<frames, table, nused, hand>>
lockVars  == <<writer, readers>>
dropVars  == <<files, dropping>>
storeVars == <<files, dropping, nblocks, disk, stable, failures>>
vars      == <<poolVars, lockVars, storeVars, client, written, vouched>>

Zero == [p \in KeptPages |-> 0]
Idle == [pc |-> "idle", frame |-> NoFrame, page |-> NoPage, walk |-> 0, wrote |-> Zero]

Init ==
    /\ frames = [f \in Frames |-> [page |-> NoPage, valid |-> FALSE, pins |-> 0,
                                   usage |-> 0, dirty |-> FALSE, val |-> 0]]
    /\ table = [p \in Pages |-> NoFrame]
    /\ nused = 0
    /\ hand = 0
    /\ writer = [f \in Frames |-> Nobody]
    /\ readers = [f \in Frames |-> {}]
    /\ files = Rels
    /\ dropping = {}
    /\ nblocks = [r \in Rels |-> 1]
    /\ disk = [p \in Pages |-> 0]
    /\ stable = Zero
    /\ failures = 0
    /\ client = [c \in Clients |-> Idle]
    /\ written = Zero
    /\ vouched = Zero

WorkLeft == MapThenSumSet(LAMBDA p : written[p], KeptPages) + failures + Cardinality(dropping) < MaxWork

Exists(p) == Rel(p) \in files /\ p[2] < nblocks[Rel(p)]

-----------------------------------------------------------------------------
(* The clock sweep, turn by turn as victim() makes it.                     *)

MaxTurns == NFrames * (MaxUsageCount + 2)

\* Slip: an invalid frame is taken before anyone asks whether it is pinned.
TurnTakesInvalid(s) ==
    LET f == s.hand
        t == [s EXCEPT !.hand = (f + 1) % NFrames]
    IN  IF s.victim # NoFrame \/ s.pinned = NFrames THEN s
        ELSE IF ~frames[f].valid THEN [t EXCEPT !.victim = f]
        ELSE IF frames[f].pins > 0 THEN [t EXCEPT !.pinned = @ + 1]
        ELSE IF s.usage[f] > 0 THEN [t EXCEPT !.pinned = 0, !.usage[f] = @ - 1]
        ELSE [t EXCEPT !.victim = f]

\* Slip: the hand is advanced after the inspection, so not past the victim.
TurnStaysOnVictim(s) ==
    LET f == s.hand
        t == [s EXCEPT !.hand = (f + 1) % NFrames]
    IN  IF s.victim # NoFrame \/ s.pinned = NFrames THEN s
        ELSE IF frames[f].pins > 0 THEN [t EXCEPT !.pinned = @ + 1]
        ELSE IF frames[f].valid /\ s.usage[f] > 0
        THEN [t EXCEPT !.pinned = 0, !.usage[f] = @ - 1]
        ELSE [s EXCEPT !.victim = f]

\* One turn: the hand moves on before the frame it pointed at is inspected.
Turn(s) ==
    LET f == s.hand
        t == [s EXCEPT !.hand = (f + 1) % NFrames]
    IN  IF s.victim # NoFrame \/ s.pinned = NFrames THEN s
        ELSE IF frames[f].pins > 0 THEN [t EXCEPT !.pinned = @ + 1]
        ELSE IF frames[f].valid /\ s.usage[f] > 0
        THEN [t EXCEPT !.pinned = 0, !.usage[f] = @ - 1]
        ELSE [t EXCEPT !.victim = f]

NoTurn == [hand |-> hand, usage |-> [f \in Frames |-> frames[f].usage],
           pinned |-> 0, victim |-> NoFrame]

Sweep ==
    LET after[n \in 0 .. MaxTurns] == IF n = 0 THEN NoTurn ELSE Turn(after[n - 1])
    IN  after[MaxTurns]

\* victim(): a frame never used yet, else the sweep's.
Victim ==
    IF nused < NFrames
    THEN [NoTurn EXCEPT !.victim = nused]
    ELSE Sweep

\* The frames after the sweep has passed, whatever happens next.
Swept(v) == [f \in Frames |-> [frames[f] EXCEPT !.usage = v.usage[f]]]

\* Slip: a dirty victim is not written.
MustFlushNever(f) == FALSE

MustFlush(f) == frames[f].valid /\ frames[f].dirty

\* What a write of frame f does to the disk; it fails without the file.
CanWrite(f) == Rel(frames[f].page) \in files
StoreFails == failures < MaxFailures /\ WorkLeft /\ failures' = failures + 1
DiskWith(f) == [disk EXCEPT ![frames[f].page] = frames[f].val]

\* The victim is flushed, dropped from the table and given to page p.
Evict(v, p) ==
    /\ MustFlush(v.victim) => CanWrite(v.victim)
    /\ nused' = IF nused < NFrames THEN nused + 1 ELSE nused
    /\ hand' = v.hand
    /\ table' = [q \in Pages |-> IF q = p THEN v.victim
                                 ELSE IF table[q] = v.victim THEN NoFrame ELSE table[q]]

Install(v, p, val) ==
    frames' = [Swept(v) EXCEPT ![v.victim] =
                 [page |-> p, valid |-> TRUE, pins |-> 1, usage |-> 1,
                  dirty |-> FALSE, val |-> val]]

Holds(c, f, p, pc) == client' = [client EXCEPT ![c].pc = pc, ![c].frame = f, ![c].page = p]

-----------------------------------------------------------------------------
(* Pool.Pin, Extend, Unpin.                                                *)

PinHit(c, p) ==
    /\ client[c].pc = "idle"
    /\ table[p] # NoFrame
    /\ frames' = [frames EXCEPT ![table[p]].pins = @ + 1,
                                ![table[p]].usage = IF @ < MaxUsageCount THEN @ + 1 ELSE @]
    /\ Holds(c, table[p], p, "pinned")
    /\ UNCHANGED <<table, nused, hand, lockVars, storeVars, written, vouched>>

PinMiss(c, p) ==
    /\ client[c].pc = "idle"
    /\ table[p] = NoFrame
    /\ Exists(p)
    /\ Victim.victim # NoFrame
    /\ Evict(Victim, p)
    /\ disk' = IF MustFlush(Victim.victim) THEN DiskWith(Victim.victim) ELSE disk
    /\ Install(Victim, p, disk[p])
    /\ Holds(c, Victim.victim, p, "pinned")
    /\ UNCHANGED <<lockVars, dropVars, nblocks, stable, failures, written, vouched>>

Extend(c, r) ==
    /\ client[c].pc = "idle"
    /\ r \in files
    /\ <<r, nblocks[r]>> \in Pages
    /\ Victim.victim # NoFrame
    /\ LET p == <<r, nblocks[r]>> IN
       /\ Evict(Victim, p)
       /\ disk' = IF MustFlush(Victim.victim)
                  THEN [DiskWith(Victim.victim) EXCEPT ![p] = 0] ELSE [disk EXCEPT ![p] = 0]
       /\ Install(Victim, p, 0)
       /\ Holds(c, Victim.victim, p, "pinned")
    /\ nblocks' = [nblocks EXCEPT ![r] = @ + 1]
    /\ UNCHANGED <<lockVars, dropVars, stable, failures, written, vouched>>

\* A miss, or an Extend, whose victim cannot be written: the pool keeps the
\* page and the error goes to the caller.
Misses(c) == client[c].pc = "idle" /\ \E p \in Pages : table[p] = NoFrame /\ Exists(p)

VictimFails(c) ==
    /\ Misses(c)
    /\ Victim.victim # NoFrame
    /\ MustFlush(Victim.victim)
    /\ IF CanWrite(Victim.victim) THEN StoreFails ELSE UNCHANGED failures
    /\ frames' = Swept(Victim)
    /\ hand' = Victim.hand
    /\ UNCHANGED <<table, nused, lockVars, dropVars, nblocks, disk, stable, client,
                   written, vouched>>

\* The victim is gone, but the page cannot be read or appended.
LoadFails(c) ==
    /\ StoreFails
    /\ Misses(c)
    /\ Victim.victim # NoFrame
    /\ Evict(Victim, NoPage)
    /\ disk' = IF MustFlush(Victim.victim) THEN DiskWith(Victim.victim) ELSE disk
    /\ frames' = [Swept(Victim) EXCEPT ![Victim.victim].valid = FALSE,
                                       ![Victim.victim].dirty = FALSE]
    /\ UNCHANGED <<lockVars, dropVars, nblocks, stable, client, written, vouched>>

Unpin(c) ==
    /\ client[c].pc = "pinned"
    /\ frames' = [frames EXCEPT ![client[c].frame].pins = @ - 1]
    /\ Holds(c, NoFrame, NoPage, "idle")
    /\ UNCHANGED <<table, nused, hand, lockVars, storeVars, written, vouched>>

-----------------------------------------------------------------------------
(* A change: Lock, write through Page(), MarkDirty, Unlock.                *)

Lock(c) ==
    /\ client[c].pc = "pinned"
    /\ writer[client[c].frame] = Nobody /\ readers[client[c].frame] = {}
    /\ writer' = [writer EXCEPT ![client[c].frame] = {c}]
    /\ client' = [client EXCEPT ![c].pc = "locked"]
    /\ UNCHANGED <<poolVars, readers, storeVars, written, vouched>>

Modify(c) ==
    /\ client[c].pc = "locked"
    /\ LET f == client[c].frame
           p == client[c].page
       IN  /\ frames[f].val < MaxWrites
           /\ p \in KeptPages => WorkLeft
           /\ frames' = [frames EXCEPT ![f].val = @ + 1]
           /\ written' = [q \in KeptPages |-> IF q = p THEN written[q] + 1 ELSE written[q]]
           /\ client' = [client EXCEPT ![c].pc = "modified",
                            ![c].wrote = [q \in KeptPages |-> IF q = p THEN frames[f].val + 1
                                                              ELSE client[c].wrote[q]]]
    /\ UNCHANGED <<table, nused, hand, lockVars, storeVars, vouched>>

MarkDirty(c) ==
    /\ client[c].pc = "modified"
    /\ frames' = [frames EXCEPT ![client[c].frame].dirty = TRUE]
    /\ client' = [client EXCEPT ![c].pc = "marked"]
    /\ UNCHANGED <<table, nused, hand, lockVars, storeVars, written, vouched>>

Unlock(c) ==
    /\ client[c].pc = "marked"
    /\ writer' = [writer EXCEPT ![client[c].frame] = Nobody]
    /\ client' = [client EXCEPT ![c].pc = "pinned"]
    /\ UNCHANGED <<poolVars, readers, storeVars, written, vouched>>
-----------------------------------------------------------------------------
(* The commit of a session: FlushAll frame by frame, SyncAll, the bit.     *)

StartCommit(c) ==
    /\ client[c].pc = "idle"
    /\ client' = [client EXCEPT ![c].pc = "walk", ![c].walk = 0]
    /\ UNCHANGED <<poolVars, lockVars, storeVars, written, vouched>>

\* Slip: frames in use are skipped too.
FlushSkipBusy(c) ==
    /\ client[c].pc = "walk" /\ client[c].walk < NFrames
    /\ ~MustFlush(client[c].walk) \/ frames[client[c].walk].pins > 0
    /\ client' = [client EXCEPT ![c].walk = @ + 1]
    /\ UNCHANGED <<poolVars, lockVars, storeVars, written, vouched>>

FlushSkip(c) ==
    /\ client[c].pc = "walk" /\ client[c].walk < NFrames
    /\ ~MustFlush(client[c].walk)
    /\ client' = [client EXCEPT ![c].walk = @ + 1]
    /\ UNCHANGED <<poolVars, lockVars, storeVars, written, vouched>>

FlushPin(c) ==
    /\ client[c].pc = "walk" /\ client[c].walk < NFrames
    /\ MustFlush(client[c].walk)
    /\ frames' = [frames EXCEPT ![client[c].walk].pins = @ + 1]
    /\ client' = [client EXCEPT ![c].pc = "flushlock", ![c].frame = client[c].walk]
    /\ UNCHANGED <<table, nused, hand, lockVars, storeVars, written, vouched>>

\* Slip: FlushAll writes without the content lock.
FlushUnlocked(c) ==
    /\ client[c].pc = "flushlock"
    /\ client' = [client EXCEPT ![c].pc = "flushwrite"]
    /\ UNCHANGED <<poolVars, lockVars, storeVars, written, vouched>>

FlushRLock(c) ==
    /\ client[c].pc = "flushlock"
    /\ writer[client[c].frame] = Nobody
    /\ readers' = [readers EXCEPT ![client[c].frame] = @ \cup {c}]
    /\ client' = [client EXCEPT ![c].pc = "flushwrite"]
    /\ UNCHANGED <<poolVars, writer, storeVars, written, vouched>>

\* flush, unpin, RUnlock: somebody may have cleaned the frame meanwhile.
FlushWrite(c) ==
    /\ client[c].pc = "flushwrite"
    /\ LET f == client[c].frame IN
       /\ frames[f].dirty => CanWrite(f)
       /\ disk' = IF frames[f].dirty THEN DiskWith(f) ELSE disk
       /\ frames' = [frames EXCEPT ![f].dirty = FALSE, ![f].pins = @ - 1]
       /\ readers' = [readers EXCEPT ![f] = @ \ {c}]
    /\ client' = [client EXCEPT ![c].pc = "walk", ![c].frame = NoFrame, ![c].walk = @ + 1]
    /\ UNCHANGED <<table, nused, hand, writer, dropVars, nblocks, stable, failures,
                   written, vouched>>

\* The write fails: Commit is not called and the transaction aborts.
FlushFails(c) ==
    /\ client[c].pc = "flushwrite"
    /\ LET f == client[c].frame IN
       /\ frames[f].dirty
       /\ IF CanWrite(f) THEN StoreFails ELSE UNCHANGED failures
       /\ frames' = [frames EXCEPT ![f].pins = @ - 1]
       /\ readers' = [readers EXCEPT ![f] = @ \ {c}]
    /\ client' = [client EXCEPT ![c] = Idle]
    /\ UNCHANGED <<table, nused, hand, writer, dropVars, nblocks, disk, stable,
                   written, vouched>>

SyncAll(c) ==
    /\ client[c].pc = "walk" /\ client[c].walk = NFrames
    /\ stable' = [p \in KeptPages |-> disk[p]]
    /\ client' = [client EXCEPT ![c].pc = "bit"]
    /\ UNCHANGED <<poolVars, lockVars, dropVars, nblocks, disk, failures, written, vouched>>

\* SyncAll stops at the first file that cannot be synced; Commit is not called.
SyncFails(c) ==
    /\ client[c].pc = "walk" /\ client[c].walk = NFrames
    /\ StoreFails
    /\ \E synced \in SUBSET Kept :
          stable' = [p \in KeptPages |-> IF Rel(p) \in synced THEN disk[p] ELSE stable[p]]
    /\ client' = [client EXCEPT ![c] = Idle]
    /\ UNCHANGED <<poolVars, lockVars, dropVars, nblocks, disk, written, vouched>>

Commit(c) ==
    /\ client[c].pc = "bit"
    /\ vouched' = [p \in KeptPages |-> IF client[c].wrote[p] > vouched[p]
                                    THEN client[c].wrote[p] ELSE vouched[p]]
    /\ client' = [client EXCEPT ![c] = Idle]
    /\ UNCHANGED <<poolVars, lockVars, storeVars, written>>

-----------------------------------------------------------------------------
(* A dropped relation: its buffers are discarded, then its file removed.   *)

\* Slip: the pins of a discarded frame are reset with it.
DiscardUnpins(r) ==
    /\ r \in Dropped \ dropping /\ WorkLeft
    /\ dropping' = dropping \cup {r}
    /\ frames' = [f \in Frames |->
                     IF frames[f].valid /\ Rel(frames[f].page) = r
                     THEN [frames[f] EXCEPT !.valid = FALSE, !.dirty = FALSE, !.pins = 0]
                     ELSE frames[f]]
    /\ table' = [p \in Pages |-> IF Rel(p) = r THEN NoFrame ELSE table[p]]
    /\ UNCHANGED <<nused, hand, lockVars, files, nblocks, disk, stable, failures,
                   client, written, vouched>>

Discard(r) ==
    /\ r \in Dropped \ dropping /\ WorkLeft
    /\ dropping' = dropping \cup {r}
    /\ frames' = [f \in Frames |->
                     IF frames[f].valid /\ Rel(frames[f].page) = r
                     THEN [frames[f] EXCEPT !.valid = FALSE, !.dirty = FALSE] ELSE frames[f]]
    /\ table' = [p \in Pages |-> IF Rel(p) = r THEN NoFrame ELSE table[p]]
    /\ UNCHANGED <<nused, hand, lockVars, files, nblocks, disk, stable, failures,
                   client, written, vouched>>

Unlink(r) ==
    /\ r \in dropping \cap files
    /\ files' = files \ {r}
    /\ UNCHANGED <<poolVars, lockVars, dropping, nblocks, disk, stable, failures, client,
                   written, vouched>>

-----------------------------------------------------------------------------
Next ==
    \/ \E c \in Clients :
        \/ \E p \in Pages : PinHit(c, p) \/ PinMiss(c, p)
        \/ \E r \in Rels : Extend(c, r)
        \/ VictimFails(c) \/ LoadFails(c) \/ Unpin(c)
        \/ Lock(c) \/ Modify(c) \/ MarkDirty(c) \/ Unlock(c)
        \/ StartCommit(c) \/ FlushSkip(c) \/ FlushPin(c) \/ FlushRLock(c)
        \/ FlushWrite(c) \/ FlushFails(c)
        \/ SyncAll(c) \/ SyncFails(c) \/ Commit(c)
    \/ \E r \in Dropped : Discard(r) \/ Unlink(r)

Spec == Init /\ [][Next]_vars

-----------------------------------------------------------------------------
Pcs == {"idle", "pinned", "locked", "modified", "marked",
        "walk", "flushlock", "flushwrite", "bit"}
Pinners(f) == {c \in Clients : client[c].frame = f}

TypeOK ==
    /\ table \in [Pages -> Frames \cup {NoFrame}]
    /\ nused \in 0 .. NFrames /\ hand \in Frames
    /\ files \subseteq Rels /\ Rels \ files \subseteq dropping
    /\ \A f \in Frames : /\ frames[f].usage \in 0 .. MaxUsageCount
                         /\ frames[f].pins = Cardinality(Pinners(f))
                         /\ frames[f].val \in 0 .. MaxWrites
                         /\ frames[f].valid => table[frames[f].page] = f
    /\ \A p \in Pages : table[p] # NoFrame =>
                         frames[table[p]].valid /\ frames[table[p]].page = p
    /\ \A c \in Clients : client[c].pc \in Pcs

\* No change is lost: what a Pin of a page returns, from its frame or from
\* disk, has every change made to it, whatever was evicted, reloaded or
\* flushed in between.
NoLostWrites ==
    \A p \in KeptPages :
        written[p] = IF table[p] # NoFrame THEN frames[table[p]].val ELSE disk[p]

\* "While a buffer is pinned it cannot be evicted": the frame a goroutine
\* holds pinned holds the same page until it unpins it, also when its
\* relation is discarded meanwhile.
PinnedFrameStays ==
    [][\A c \in Clients :
          client[c].frame # NoFrame /\ client'[c].frame = client[c].frame
             => frames'[client[c].frame].page = frames[client[c].frame].page]_vars

\* No half-changed page reaches the disk: neither an eviction nor another
\* session's FlushAll writes a frame somebody is in the middle of changing.
\* Of a relation being dropped, FlushAll may still write the frame that was
\* discarded under it, while the page is changed in the frame it is in since.
NoTornWrite ==
    [][\A f \in Frames :
          writer[f] # Nobody => LET p == frames[f].page IN
              table[p] = f /\ Rel(p) \notin dropping => disk'[p] = disk[p]]_vars

\* A commit bit vouches only for pages that survive a crash, those of the
\* transaction that other sessions evicted or flushed included.
CommitIsDurable ==
    \A p \in KeptPages : vouched[p] <= stable[p]

\* The sweep evicts the first frame after the hand among the unpinned ones
\* that need the fewest passes, having lowered the others by one for each
\* time it passed them; it finds one if any frame is unpinned, and changes
\* nothing if none is.
SweepIsClock ==
    LET free == {f \in Frames : frames[f].pins = 0}
        need(f) == IF frames[f].valid THEN frames[f].usage ELSE 0
        ahead(f) == (f - hand + NFrames) % NFrames
    IN  IF free = {} THEN /\ Sweep.victim = NoFrame
                          /\ \A f \in Frames : Sweep.usage[f] = frames[f].usage
        ELSE LET v == Sweep.victim IN
             /\ v \in free
             /\ \A f \in free : need(v) < need(f) \/ (need(v) = need(f) /\ ahead(v) <= ahead(f))
             /\ Sweep.hand = (v + 1) % NFrames
             /\ \A f \in Frames \ {v} : Sweep.usage[f] =
                   IF f \notin free \/ ~frames[f].valid THEN frames[f].usage
                   ELSE frames[f].usage - need(v) - (IF ahead(f) < ahead(v) THEN 1 ELSE 0)

=============================================================================
