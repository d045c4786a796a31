\* Both idle paths, three producers.
SPECIFICATION IdleFairSpec
CONSTANTS
    Sender = {p1, p2, p3}
    Archs = {"riscv64", "loongarch64"}

INVARIANTS
    
    NotificationIsBacked

    
