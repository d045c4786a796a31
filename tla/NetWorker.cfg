SPECIFICATION WorkerFairSpec
CONSTANTS
    Producer = {p1, p2}
    Value = {v}
    Capacity = 2
    NoProducer = NoProducer
    NoValue = NoValue
    Budget = 1
    Deadline = {1, 2}
    SourceSets = {{p1, p2}, {p1, "timer"}, {p1, "device"}}
    MaxRegistration = 2
INVARIANTS
    NeverSleepsOnWork
    DeadlineIsArmed
PROPERTIES
    EverySourceIsServed
