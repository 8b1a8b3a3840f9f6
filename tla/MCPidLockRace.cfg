\* One thread in each of two processes; nobody dies, no write fails, no stamp is slow.
CONSTANTS
    t1 = t1
    t2 = t2
    t3 = t3
    p1 = p1
    p2 = p2
    Thread <- PairThread
    Process <- MCProcess
    ProcOf <- PairProcOf
    Unstamped = Unstamped
    NoLock = NoLock
    SlowStamp = FALSE
    MaxDepth = 1
    MaxOps = 2
    MaxCrashes = 0
    MaxFaults = 0
SPECIFICATION Spec
INVARIANTS
    MutualExclusion
\* Every thread stops once it has made MaxOps acquires.
CHECK_DEADLOCK FALSE
