\* One task that is cancelled and retried, and nothing else that goes wrong.
SPECIFICATION Spec
CONSTANTS
    Tasks = 1
    Permits = 1
    MaxRetries = 1
    MaxDeletes = 0
    MaxFaults = 0
PROPERTY RetriedTaskStarts
CHECK_DEADLOCK FALSE
