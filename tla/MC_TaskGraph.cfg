CONSTANTS
    t1 = t1
    t2 = t2
    t3 = t3
    t4 = t4
    t5 = t5
    t6 = t6
    Task = {t1, t2, t3, t4, t5, t6}
    Definitions <- MCGraph
    InlineIds = {t5, t6}
    TooLarge = {}
    Reservations = FALSE
    ForceDeletes = FALSE
SPECIFICATION Spec
CHECK_DEADLOCK FALSE
INVARIANTS NoTaskLeftBehind NoDanglingReference OneInlineFallback
PROPERTIES WorkIsKept StartsOnResults
