\* Two hooks at once, a verifier beside them, two deaths over four appends.
CONSTANTS
    Recorders = {r1, r2}
    Verifiers = {v1}
    Shippers = {s1}
    Kinds = {"event"}
    MaxEvents = 4
    MaxFailures = 2
SPECIFICATION Spec
SYMMETRY Symmetry
INVARIANTS DenseChain HeadTrailsLog AckedIsCovered OneDeathHeals NoFalseAlarm
PROPERTY ImplementsAbstractLog
