CONSTANTS
    t1 = t1
    t2 = t2
    t3 = t3
    t4 = t4
    t5 = t5
    t6 = t6
    Task = {t1, t2, t3, t4, t5}
    Definitions <- MCFallback
    InlineIds = {t5}
    TooLarge = {t2}
    Reservations = TRUE
    ForceDeletes = TRUE
SPECIFICATION Spec
CHECK_DEADLOCK FALSE
INVARIANT TypeOK
PROPERTY FallbackWakesOnlyOnFailure
