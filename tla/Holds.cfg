CONSTANTS
    Instances = {i1, i2}
    Kinds = {"exec", "forward"}
    Calls = {c1}
    Processes = {p1}
    Lease = 3
    IdleAfter = 4
    Guard = 1
    MaxFaults = 1
    None = None
SPECIFICATION FairSpec
CHECK_DEADLOCK FALSE
PROPERTIES IdleSparesHeld IdleSparesProcesses UnusedIdles
