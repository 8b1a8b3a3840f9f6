\* Two threads of one process and one of another; one process dies, one write fails.
CONSTANTS
    t1 = t1
    t2 = t2
    t3 = t3
    p1 = p1
    p2 = p2
    Thread <- MCThread
    Process <- MCProcess
    ProcOf <- MCProcOf
    Unstamped = Unstamped
    NoLock = NoLock
    SlowStamp = TRUE
    MaxDepth = 2
    MaxOps = 1
    MaxCrashes = 1
    MaxFaults = 1
SPECIFICATION FairSpec
INVARIANTS
    TypeOK
    HolderOwnsFile
    LeakOnlyByDeathOrFault
PROPERTIES
    Contract
    AcquireReturns
    DeadLockCleared
\* Every thread stops once it has made MaxOps acquires.
CHECK_DEADLOCK FALSE
