\* A leaf splits between a scan's read of the root and its read of the leaf.
CONSTANTS
    MaxKey = 2
    MaxTid = 2
    Capacity = 3
    Ranges <- MCRanges
    MaxFailures = 0
    MaxWork = 6
SPECIFICATION Spec
INVARIANTS ScanInBounds
