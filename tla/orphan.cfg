SPECIFICATION Spec
CONSTANTS
    None = None
    Callers = {a, b}
    JobIds = {j1, j2, j3}
    MaxDocs = 1
SYMMETRY Interchangeable
INVARIANT FailureTakesJobBack
CHECK_DEADLOCK FALSE
