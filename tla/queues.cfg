SPECIFICATION Spec
CONSTANTS
    None = None
    Unset = Unset
    Queues = {q1, q2}
    JobIds = {j1}
    QueueCodes = {3}
    JobCodes = {3}
    Tasks = {poller, other}
    Poller = poller
    LpFiles = {}
SYMMETRY Interchangeable
INVARIANTS Telling Waiting ViewTracksSnapshot
