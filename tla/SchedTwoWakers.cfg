\* Two wake-ups of one task meet at the enqueue guard.
SPECIFICATION Spec
CONSTANTS
    Task = {t1, t2}
    CPU = {c1, c2}
    Remote = {r1, r2}
    None = None
    Idle = Idle
    RemoteOps = {"wake"}
    Exits = {}
    SelfStops = {}
    Balancers = {}
SYMMETRY Symmetry
INVARIANTS
    NotStranded
