\* Two terminals, two checkouts, two calls, and two edits or failures.
CONSTANTS
    Inits = {p1, p2}
    Binaries = {b1, b2}
    MaxInits = 2
    MaxMishaps = 2
SPECIFICATION Spec
SYMMETRY Symmetry
INVARIANTS NoDuplicateTables OneHookEach OwnHooksKept TrustedIsApprovedUnlessMoved
PROPERTY SecondInitWritesNothing
CHECK_DEADLOCK FALSE
