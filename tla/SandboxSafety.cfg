\* Three runs on one home, one with the pid of another, three processes, two
\* calls of allow or deny.
CONSTANTS
    r1 = r1
    r2 = r2
    r3 = r3
    Runs = {r1, r2, r3}
    Procs = {p1, p2, p3}
    Layout <- MCLayout
    PidOf <- MCPidOf
    Grantable <- MCGrantable
    Names <- MCNames
    Paths <- MCPaths
    NoRun = NoRun
    NoSock = NoSock
    MaxGrants = 2
SPECIFICATION Spec
SYMMETRY Symmetry
INVARIANTS RecordsSealed SecretsUnread GrantsOnlyInCommands SocketsOfOwnRun
CHECK_DEADLOCK FALSE
