SPECIFICATION SleepLocksSpec
CONSTANTS
    Task = {t1, t2, t3}
    NoTask = NoTask
    Signalled = {t1}
    Exiting = {t1}

    PiTask = {1, 2, 3}
    PiWord = {10, 11}
    PiUsers <- MCPiUsers
    Urgent = {3}
    Timed = {3}
    Mortal = {1}
    Robust = {1}
SYMMETRY Symmetry
INVARIANTS
    MutualExclusion   ForcedExitNeverSleeps
    WordIsTrue NoLostPiWakeup 
