CONSTANTS
    Pods = {p1, p2}
    Nodes = {n1, n2}
    Total <- PodTotal
    Slots = {1, 2}
    Memory = 2
    MaxEvents = 1
    None = None
SPECIFICATION Spec
INVARIANTS TypeOK GatedBookingsFit
PROPERTY ClaimsMeetNode
SYMMETRY Alike
