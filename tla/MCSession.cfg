\* Two sessions, three transactions, two tables, one crash, and as many
\* failing calls as MaxWork leaves.
CONSTANTS
    MaxXid = 5
    Sessions = {s1, s2}
    MaxTables = 2
    MaxWork = 4
    MaxCrashes = 1
SYMMETRY Symmetry
SPECIFICATION Spec
\* The bounds on transactions and tables end every behaviour.
CHECK_DEADLOCK FALSE
INVARIANTS RunningHasSession AnswerIsVerdict TableHasFile NoLeftoverFile
PROPERTIES SnapshotFits
