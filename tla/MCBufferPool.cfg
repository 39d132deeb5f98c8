\* Two goroutines over two frames; a relation of two blocks stays, another goes.
CONSTANTS
    NFrames = 2
    MaxUsageCount = 1
    Clients = {c1, c2}
    Kept = {t}
    Dropped = {d}
    MaxBlocks = 2
    MaxWrites = 2
    MaxFailures = 1
    MaxWork = 2
SYMMETRY Symmetry
SPECIFICATION Spec
\* The bounds on writes and failures end every behaviour.
CHECK_DEADLOCK FALSE
INVARIANTS TypeOK NoLostWrites CommitIsDurable SweepIsClock
PROPERTIES PinnedFrameStays NoTornWrite
