\* A hook that died before head; then a run that prunes.
CONSTANTS
    Recorders = {r1}
    Verifiers = {}
    Shippers = {s1}
    Kinds = {"event"}
    MaxEvents = 2
    MaxFailures = 1
    BatchLimit = 2
    MaxLosses = 0
SPECIFICATION PruneSpec
PROPERTY PrunesOnlyHeld
CHECK_DEADLOCK FALSE
