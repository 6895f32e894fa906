CONSTANTS
    Required = {1, 2, 3}
    Timeout = {1, 3}
    NoTimeout = NoTimeout
    MaxLag = 2
    MaxTime = 6
SPECIFICATION GateSpec
INVARIANTS VerdictStands ClosedByExactlyRequired
