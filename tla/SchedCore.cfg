\* Wake-ups, stops, exits and signals race with the switches of two CPUs that
\* pull tasks from each other, or with signals.
SPECIFICATION MCSpec
CONSTANTS
    Task = {t1, t2}
    CPU = {c1, c2}
    Remote = {r1}
    None = None
    Idle = Idle
    RemoteOps = {"wake", "continue", "kill", "stop"}
    Exits = {t1}
    SelfStops = {t2}
    Balancers = {c1, c2}
SYMMETRY Symmetry

INVARIANTS
    ExecutionOwnership
    ClaimNeverFails
    SingleRunQueue
    MigrationHasOwner
    
