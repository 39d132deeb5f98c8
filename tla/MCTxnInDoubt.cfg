\* One transaction whose Commit fails in its sync and which is then aborted.
CONSTANTS
    MaxXid = 3
    MaxOid = 1
    Waiters = {}
    XactsPerSegment = 4
SPECIFICATION Spec
INVARIANTS AbortIsFinal
