\* Two runs that share two pids, a terminal that types two calls, one kill.
CONSTANTS
    Runs = {i1, i2}
    Granters = {g1}
    Pids = {p1, p2}
    OtherPid = OtherPid
    Paths = {x1}
    NoPid = NoPid
    NoRun = NoRun
    MaxCalls = 2
    MaxDeaths = 1
SPECIFICATION Spec
SYMMETRY Symmetry
INVARIANTS GrantsTakeEffectUndisturbed RecordIsProfile LeftoversHaveCause
PROPERTIES OwnProfileUndisturbed SweepFailsOnlyInClash
CHECK_DEADLOCK FALSE
