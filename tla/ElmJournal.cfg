SPECIFICATION Spec
CONSTANTS
    Module = {m1}
    NoModule = NoModule
    Loader = {l1, l2}
    Nobody = Nobody
    MaxEpoch = 2
    DiskCapacity = 3
    RingLimit = 2
    SeqMax = 4
    MaxCrash = 2
SYMMETRY Symmetry
INVARIANTS
    LogReplays
    AckedIsDurable
    NoForgottenEpoch
    StoreIsRecorded
    RingIsHealthy
PROPERTIES
    SealedUntilReboot
