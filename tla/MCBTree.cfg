\* Two values and NULL, two entries of each: up to three levels; one insert fails.
CONSTANTS
    MaxKey = 2
    MaxTid = 2
    Capacity = 3
    Ranges <- MCRanges
    MaxFailures = 1
    MaxWork = 6
SPECIFICATION Spec
INVARIANTS TreeIsSound AckedIsStored ScanIsComplete
