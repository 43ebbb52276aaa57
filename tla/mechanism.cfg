SPECIFICATION Spec
CONSTANTS
    None = None
    Empty = Empty
    Callers = {a}
    MaxCalls = 2
    Dictionaries <- Scans
SYMMETRY Interchangeable
INVARIANTS TypeOK OkMeansDone RefusedMeansUntouched AvailableMeansInstalled DevicesAreThoseFound
CHECK_DEADLOCK FALSE
