\* Two sessions, see MCWorkloads, over a table with an index.
CONSTANTS
    MaxXid = 5
    Sessions = {s1, s2}
    s1 = s1
    s2 = s2
    Names = {"t", "i", "n"}
    MaxOid = 5
    Workloads <- MCWorkloads
    MaxCached = 1
SYMMETRY Symmetry
SPECIFICATION Spec
\* The bound on statements ends every behaviour; two drops may wait in a circle.
CHECK_DEADLOCK FALSE
INVARIANTS RelationsAreWhole NamesCollideOnlyInRaces CacheIsCurrent
