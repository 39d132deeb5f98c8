\* See MCWorkloads: three transactions insert, or two write and build the index.
CONSTANTS
    MaxXid = 5
    Workloads <- MCWorkloads
SPECIFICATION FairSpec
\* The bounds on transactions and statements end every behaviour.
CHECK_DEADLOCK FALSE
INVARIANTS UniqueKeys LiveIsIndexed BlamedWasThere
PROPERTIES StatementsEnd
