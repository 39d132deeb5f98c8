\* Workloads of two and three transactions over one and two rows.
CONSTANTS
    MaxXid = 5
    MaxTuples = 6
    Workloads <- MCWorkloads
SPECIFICATION Spec
\* The bounds on transactions, statements and versions end every behaviour.
CHECK_DEADLOCK FALSE
INVARIANTS HintsAreTrue NoLostUpdate ScanIsExact RepeatableReadWrites
PROPERTIES CommittedDeleteStays QualsHold
