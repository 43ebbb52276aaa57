SPECIFICATION Spec
CONSTANTS
    None = None
    Callers = {a, b, c}
    JobIds = {j1, j2, j3}
    MaxDocs = 1
SYMMETRY Interchangeable
INVARIANTS TypeOK OkMeansSubmitted FailedUploadTakesJobBack OpenJobsExplained AtMostOnce
CHECK_DEADLOCK FALSE
