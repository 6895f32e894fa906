CONSTANTS
    a = a
    o = o
    oo = oo
    elastic = elastic
    plain = plain
    direct = direct
    Resource <- MCResource
    Candidates <- MCCandidates
    Overflow <- MCOverflow
    Holder <- MCHolder
    Named <- MCNamed
    Cap <- MCCap
    Fixed = Fixed
    Ttl = {1, 2}
    NoExpiry = NoExpiry
    MaxLag = 1
    MaxTime = 3
SPECIFICATION Spec
INVARIANTS Exclusive BeliefBacked OneNamePerPoolCaller PoolWithinCap
