\* A late wake-up meets a task that exits.
SPECIFICATION Spec
CONSTANTS
    Task = {t1, t2}
    CPU = {c1, c2}
    Remote = {r1}
    None = None
    Idle = Idle
    RemoteOps = {"wake"}
    Exits = {t1}
    SelfStops = {}
    Balancers = {}
SYMMETRY Symmetry
INVARIANTS
    ExitIsFinal
