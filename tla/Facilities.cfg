SPECIFICATION FacilitySpec
CONSTANTS
    Proc = {1, 2}
    Ofd = {3}
    Top = 1
    PosixType = {"read", "write", "unlock"}
    OfdType = {"write", "unlock"}
    LockStart = {0, 1}
    LockLen = {0, 1}

    NProcs = 2
    Exiters = {1}
    NSems = 2
    SEMVMX = 1
    Batches <- MCBatches
    SetValues = {0}
    UndoBound = 2
INVARIANTS
    ListIsNormal NoLostLockWakeup NoDeadlockAsleep PosixLocksNeedFd
    NoLostSemWakeup UndoConserves CountsAreWaiters
 
