\* Two runs, two connections of one message each, one failure.
CONSTANTS
    Runs = {r1, r2}
    Conns = {c1, c2}
    NoRun = NoRun
    NoConn = NoConn
    Exchanges <- MCExchanges
    MaxRequests = 1
    MaxFailures = 1
SPECIFICATION FairSpec
INVARIANTS OneLineEachWithinRun LinesNameMessages
PROPERTY LogNeverBlocks
CHECK_DEADLOCK FALSE
