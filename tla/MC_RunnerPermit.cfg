\* One task with one retry, and two faults on top of each other.
SPECIFICATION Spec
CONSTANTS
    Tasks = 1
    Permits = 1
    MaxRetries = 1
    MaxDeletes = 1
    MaxFaults = 2
PROPERTY PermitComesBack
