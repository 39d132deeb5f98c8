\* A row moves away between h.Lock and the unique check.
CONSTANTS
    MaxXid = 5
    Workloads <- OneRow
SPECIFICATION Spec
\* The bounds on transactions and statements end every behaviour.
CHECK_DEADLOCK FALSE
INVARIANTS OwnKeySucceeds
