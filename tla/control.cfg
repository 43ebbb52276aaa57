SPECIFICATION FairSpec
CONSTANTS
    None = None
    Callers = {panel}
    JobIds = {1, 2}
    Codes = {3, 99}
    Asks <- SomeAsks
    Options <- SomeOptions
    USER = "anonymous"
    Certificate = "own"
    MaxCalls = 2
INVARIANTS TypeOK OkMeansDone LookupIsTrue 
PROPERTIES ReliableCalls TimedCallsReturn
CHECK_DEADLOCK FALSE
