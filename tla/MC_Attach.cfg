CONSTANTS
    t1 = t1
    t2 = t2
    mesh = mesh
    ws = ws
    MaxConn = 2
    Terminal = {t1, t2}
    Mesh = {mesh}
    Workspace = {ws}
    Members <- MCMembers
    Wanted = {t1, mesh, ws}
    MaxClosed = 1
SPECIFICATION Spec
CHECK_DEADLOCK FALSE
INVARIANTS OneClientTypes NoLockOutlivesItsClient RefusedByTheLiving AttachedMeansHeld ResidualInputReaches
PROPERTY AttachAnswered
