\* Two hooks beside a run that prunes; a hook may die.
CONSTANTS
    Recorders = {r1, r2}
    Verifiers = {}
    Shippers = {s1}
    Kinds = {"event"}
    MaxEvents = 3
    MaxFailures = 1
    BatchLimit = 2
    MaxLosses = 0
SPECIFICATION PruneSpec
SYMMETRY Symmetry
INVARIANT LossNeedsOverlap
CHECK_DEADLOCK FALSE
PROPERTY PrunesOnlyHeldUnlessDeath
