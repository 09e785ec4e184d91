\* One terminal, two calls, one edit of Codex's file between them.
CONSTANTS
    Inits = {p1}
    Binaries = {b1}
    MaxInits = 2
    MaxMishaps = 1
SPECIFICATION Spec
INVARIANT InitApproves
CHECK_DEADLOCK FALSE
