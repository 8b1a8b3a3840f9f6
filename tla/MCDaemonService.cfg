\* No client: only daemon run, as the service file gives it; nothing is killed.
CONSTANTS
    d1 = d1
    d2 = d2
    d3 = d3
    c1 = c1
    c2 = c2
    Pid <- PairPid
    Client <- MCClient
    NoPid = NoPid
    SlowParent = FALSE
    MaxCalls = 0
    MaxMishaps = 1
SPECIFICATION Spec
PROPERTIES
    RunsUntilRemoved
\* Everything is still once no daemon is left.
CHECK_DEADLOCK FALSE
