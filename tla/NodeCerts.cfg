CONSTANTS
    m1 = m1
    m2 = m2
    open = open
    pin = pin
    none = none
    NoToken = none
    Machines = {m1, m2}
    Tokens = {open, pin}
    Pinned = {pin}
    First <- OneToken
    MaxCerts = 3
    MaxKeys = 3
    MaxEvents = 2
SPECIFICATION Spec
INVARIANTS NeverForked OneKey
PROPERTIES SetAsideForCause
CHECK_DEADLOCK FALSE
