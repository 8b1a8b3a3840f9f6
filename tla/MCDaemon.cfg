\* Two clients and two pids; one kill, failed write, intervention by hand or reused pid.
CONSTANTS
    d1 = d1
    d2 = d2
    d3 = d3
    c1 = c1
    c2 = c2
    Pid <- PairPid
    Client <- MCClient
    NoPid = NoPid
    SlowParent = FALSE
    MaxCalls = 3
    MaxMishaps = 1
SPECIFICATION FairSpec
INVARIANTS
    TypeOK
    OneDaemon
    StartedStays
PROPERTIES
    StopEmpties
    LoopsEnd
\* Everything is still once the clients have given their commands and no daemon is left.
CHECK_DEADLOCK FALSE
