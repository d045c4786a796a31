\* A fatal signal meets the rollback of a migration.
SPECIFICATION Spec
CONSTANTS
    Task = {t1, t2}
    CPU = {c1, c2}
    Remote = {r1}
    None = None
    Idle = Idle
    RemoteOps = {"stop", "kill"}
    Exits = {}
    SelfStops = {}
    Balancers = {c1, c2}
SYMMETRY Symmetry
INVARIANTS
    SingleRunQueue
