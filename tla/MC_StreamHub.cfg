CONSTANTS
    SinkCap = 2
    LagLimit = 3
    MaxPushes = 6
SPECIFICATION Spec
INVARIANTS EveryFrameAccounted BacklogHonest
PROPERTIES LossNeverAhead StreamEndsBeforeRelease LossIsTold ConnectionReleased
CHECK_DEADLOCK FALSE
