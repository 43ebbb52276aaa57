SPECIFICATION Spec
CONSTANTS
    None = None
    Unset = Unset
    Queues = {q1}
    JobIds = {j1, j2}
    QueueCodes = {3}
    JobCodes = {3, 5}
    Tasks = {poller}
    Poller = poller
    LpFiles = {"user"}
SYMMETRY Interchangeable
INVARIANTS TypeOK ViewTracksSnapshot EventsFitView
PROPERTIES FeedRefined OldLeaveBeforeNewArrive
