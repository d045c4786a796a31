\* SIGCONT reaches a stopped task before its CPU has let go of it.
SPECIFICATION Spec
CONSTANTS
    Task = {t1, t2}
    CPU = {c1, c2}
    Remote = {r1}
    None = None
    Idle = Idle
    RemoteOps = {"stop", "continue"}
    Exits = {}
    SelfStops = {}
    Balancers = {}
SYMMETRY Symmetry
INVARIANTS
    ContinuedIsRequeued
