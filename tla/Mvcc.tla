-------------------------------- MODULE Mvcc --------------------------------
(***************************************************************************)
(* internal/mvcc: the snapshot and the three rules that combine a tuple's  *)
(* xmin and xmax with it and with the commit log.  A tuple is a record     *)
(* with fields xmin, xmax, ctid and hints; status is the log.              *)
(***************************************************************************)
EXTENDS Xacts

HintBits == {"XminCommitted", "XminInvalid", "XmaxCommitted", "XmaxInvalid"}

\* Manager.next: the ID after the last one handed out.
NextXid == CHOOSE n \in FirstNormalXID .. MaxXid + 1 :
               /\ \A x \in Assigned : x < n
               /\ n = FirstNormalXID \/ n - 1 \in Assigned

\* Manager.Snapshot and mvcc.Take: read under one lock, own ID left out of xip.
Take(x) ==
    [xmin |-> IF Running = {} THEN NextXid
              ELSE CHOOSE m \in Running : \A y \in Running : m <= y,
     xmax |-> NextXid,
     xip  |-> Running \ {x},
     xid  |-> x]

\* Slip: IDs from xmax on are looked up in xip.
InProgressListed(s, x) == x # s.xid /\ x \in s.xip

\* Snapshot.InProgress: running, or not yet started, when the snapshot was taken.
InProgressFor(s, x) ==
    /\ x # s.xid
    /\ x >= s.xmin
    /\ x >= s.xmax \/ x \in s.xip

\* xminStatus and xmaxStatus: the hint if there is one, else the log.
XminStatus(s, t) ==
    IF t.xmin = s.xid \/ "XminCommitted" \in t.hints THEN "committed"
    ELSE IF "XminInvalid" \in t.hints THEN "aborted"
    ELSE StatusOf(t.xmin)

XmaxStatus(t) ==
    IF "XmaxCommitted" \in t.hints THEN "committed"
    ELSE IF "XmaxInvalid" \in t.hints THEN "aborted"
    ELSE StatusOf(t.xmax)

\* Step 1 of Visible: the insert is the snapshot's own or had committed.
XminVisible(s, t) ==
    \/ t.xmin = s.xid
    \/ ~InProgressFor(s, t.xmin) /\ XminStatus(s, t) = "committed"

\* Step 2: nobody had deleted it.
XmaxVisible(s, t) ==
    \/ t.xmax = InvalidXID
    \/ /\ t.xmax # s.xid
       /\ InProgressFor(s, t.xmax) \/ XmaxStatus(t) = "aborted"

Visible(s, t) == XminVisible(s, t) /\ XmaxVisible(s, t)

\* The bits Visible sets on its copy: one per verdict the log gave it.
Learned(t, xid, yes, no) ==
    IF t.hints \cap {yes, no} # {} THEN {}
    ELSE CASE StatusOf(xid) = "committed" -> {yes}
           [] StatusOf(xid) = "aborted"   -> {no}
           [] OTHER                       -> {}

VisibleHints(s, t) ==
    (IF t.xmin = s.xid \/ InProgressFor(s, t.xmin) THEN {}
     ELSE Learned(t, t.xmin, "XminCommitted", "XminInvalid"))
    \cup
    (IF ~XminVisible(s, t) \/ t.xmax \in {InvalidXID, s.xid} \/ InProgressFor(s, t.xmax)
     THEN {} ELSE Learned(t, t.xmax, "XmaxCommitted", "XmaxInvalid"))

\* Slip: a row still being inserted counts as live.
DirtyNoWait(s, t) ==
    IF XminStatus(s, t) = "aborted" \/ t.xmax = s.xid
    THEN [live |-> FALSE, wait |-> InvalidXID]
    ELSE [live |-> t.xmax = InvalidXID \/ XmaxStatus(t) # "committed", wait |-> InvalidXID]

\* Dirty: the rule of the unique check; the snapshot's bounds play no part.
Dirty(s, t) ==
    IF XminStatus(s, t) = "aborted"      THEN [live |-> FALSE, wait |-> InvalidXID]
    ELSE IF XminStatus(s, t) = "running" THEN [live |-> FALSE, wait |-> t.xmin]
    ELSE IF t.xmax = InvalidXID          THEN [live |-> TRUE,  wait |-> InvalidXID]
    ELSE IF t.xmax = s.xid               THEN [live |-> FALSE, wait |-> InvalidXID]
    ELSE IF XmaxStatus(t) = "running"    THEN [live |-> TRUE,  wait |-> t.xmax]
    ELSE [live |-> XmaxStatus(t) = "aborted", wait |-> InvalidXID]

\* Slip: the last writer wins.
ModifyLast(s, t, tid) ==
    IF XminStatus(s, t) # "committed" THEN "TMInvisible"
    ELSE IF t.xmax = s.xid            THEN "TMSelfModified"
    ELSE IF t.xmax # InvalidXID /\ XmaxStatus(t) = "running" THEN "TMBeingModified"
    ELSE "TMOk"

\* Modify: the rule of a writer.
Modify(s, t, tid) ==
    IF XminStatus(s, t) # "committed" THEN "TMInvisible"
    ELSE IF t.xmax = InvalidXID       THEN "TMOk"
    ELSE IF t.xmax = s.xid            THEN "TMSelfModified"
    ELSE IF XmaxStatus(t) = "aborted" THEN "TMOk"
    ELSE IF XmaxStatus(t) = "running" THEN "TMBeingModified"
    ELSE IF t.ctid # tid THEN "TMUpdated" ELSE "TMDeleted"

=============================================================================
