\* One hook and one ship run at a time; a death, and a request, an answer or a
\* run lost.
CONSTANTS
    Recorders = {r1}
    Verifiers = {}
    Shippers = {s1}
    Kinds = {"event", "session_end"}
    MaxEvents = 3
    MaxFailures = 1
    BatchLimit = 2
    MaxLosses = 1
SPECIFICATION ShipFairSpec
INVARIANTS VaultHoldsLog OneKeyPerChain NoFalseStopUnlessDeath
PROPERTIES ClosesWholeChainUnlessDeath ShippedAdvances ImplementsSessionLog
           HooksNeverWaitForVault AckedReachVault
