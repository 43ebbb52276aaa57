SPECIFICATION Spec
CONSTANTS
    None = None
    Callers = {a}
    SubIds = {s1, s2}
    Leases = {1, 2, 6}
    Second = 2
    IntLimit = 3
    MaxLease = 2
    MaxEvents = 1
    MaxWire = 2
INVARIANT SinceLastCollection
