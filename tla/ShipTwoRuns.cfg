\* Two ship runs over one session at once, as a timer beside --every makes.
CONSTANTS
    Recorders = {r1}
    Verifiers = {}
    Shippers = {s1, s2}
    Kinds = {"event"}
    MaxEvents = 3
    MaxFailures = 0
    BatchLimit = 2
    MaxLosses = 2
SPECIFICATION ShipSpec
SYMMETRY Symmetry
INVARIANT ShippedIsHeld
PROPERTY ImplementsReplica
