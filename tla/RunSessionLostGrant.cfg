\* One run, and two terminals typing one call each.
CONSTANTS
    Runs = {i1}
    Granters = {g1, g2}
    Pids = {p1}
    OtherPid = OtherPid
    Paths = {x1, x2}
    NoPid = NoPid
    NoRun = NoRun
    MaxCalls = 2
    MaxDeaths = 0
SPECIFICATION Spec
INVARIANT GrantsTakeEffect
CHECK_DEADLOCK FALSE
