\* Two writers of the control file and two waiting goroutines, two
\* transactions in one segment file.
CONSTANTS
    MaxXid = 4
    MaxOid = 1
    Waiters = {w1, w2}
    XactsPerSegment = 8
SPECIFICATION FairSpec
INVARIANTS IdsNeverRepeat
PROPERTIES ImplementsXacts WaitersReleased
