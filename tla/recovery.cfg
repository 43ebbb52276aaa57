SPECIFICATION HFairSpec
CONSTANTS
    None = None
    Unset = Unset
    Queues = {q1}
    JobIds = {j1}
    QueueCodes = {3, 99}
    JobCodes = {3}
    Tasks = {poller, other}
    Poller = poller
    LpFiles = {"system"}
    MaxFailures = 6
INVARIANTS RetryDelay ResyncTrustsNothingOld
PROPERTIES NeverEnds Recovers Converges
