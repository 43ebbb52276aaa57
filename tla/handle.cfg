SPECIFICATION Spec
CONSTANTS
    None = None
    Callers = {a, b}
    JobIds = {j1, j2}
    MaxDocs = 2
SYMMETRY Interchangeable
INVARIANTS TypeOK ClosedMeansReleased ConfirmedIsKept
CHECK_DEADLOCK FALSE
