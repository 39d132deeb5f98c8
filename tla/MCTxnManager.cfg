\* Recovery: three transactions, the last two in one segment file; any call
\* may fail, and the process or the machine may crash between any two steps.
CONSTANTS
    MaxXid = 5
    MaxOid = 0
    Waiters = {}
    XactsPerSegment = 2
SPECIFICATION Spec
INVARIANTS CommitSurvives AbortSurvives NoInheritedVerdict OneVerdict
