CONSTANTS
    MaxSeq = 4
    MaxFlushes = 2
    MaxItems = 3
    MaxBytes = 5
    QueueItems = 3
    QueueBytes = 5
    Attempts = 2
    ReqBytes <- MCReqBytes
    OutBytes <- MCOutBytes
    Executors = {"memory", "files"}
SPECIFICATION Spec
INVARIANTS BudgetAddsUp CleanFlushMeansStored CleanShutdownLosesNothing BodyWrittenOnce NobodyLeftWaiting
PROPERTIES SerialSpec
CHECK_DEADLOCK FALSE
