CONSTANTS
    Nodes = {n1, n2}
    Chunks = {c1}
    Disks = {d, v}
    Own = d
    Sweepers = {n1, n2}
    Trust = 0
    Longest = 1
    Grace = 2
    MaxEpoch = 2
    Faults = {"cut off", "sweep stops", "sweep overlaps"}
    None = None
SPECIFICATION Spec
SYMMETRY Symmetry
INVARIANTS CheckpointNamed CheckpointWhole DiskReadable
CHECK_DEADLOCK FALSE
