SPECIFICATION DeliverySpec
CONSTANTS
    Producer = {p1, p2, p3}
    Value = {v1, v2}
    Capacity = 2
    NoProducer = NoProducer
    NoValue = NoValue
    MaxPosition = 4

    EvTask = {e1, e2}
    EpWaiter = {w1}
    Controller = c
    EvMax = 1
    EvInit = 1
    AddOneshot = {FALSE, TRUE}
    ModOneshot = {FALSE, TRUE}
    MaxVersion = 2
    MaxCtl = 3
INVARIANTS
    SlotExclusive 
    PublishedIsCurrent ReadyIsQueued SomeoneCollects
PROPERTIES
    RefusedOnlyWhenFull ImplementsQueue
SYMMETRY Symmetry
