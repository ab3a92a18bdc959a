CONSTANTS
    Ingress = g
    Requests = {q1}
    Lease = 3
    IdleAfter = 9
    Guard = 2
    Margin = 1
    FenceFrom = 4
    FenceTo = 14
    HalfOpen = 4
    MaxFaults = 1
SPECIFICATION FairSpec
CHECK_DEADLOCK FALSE
PROPERTIES HeldNotFrozen UnusedIdles
