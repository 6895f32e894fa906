CONSTANTS
    h1 = h1
    h2 = h2
    h3 = h3
    Holder <- MCHolder
    Permits = {1, 2}
    Ttl = {1, 2}
    NoExpiry = NoExpiry
    MaxLag = 1
    MaxTime = 4
SYMMETRY MCSymmetry
SPECIFICATION Spec
INVARIANTS PromiseKept OverSubscribedOnlyByDrain
