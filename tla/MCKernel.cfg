CONSTANTS
    Pids = {p1, p2}
    Resources = {r1}
    LeaseIds = {l1, l2, l3}
    TTLs = {1, 2}
    MaxTime = 2
    MaxFailing = 1
    None = None
    NoPayload = NoPayload
SPECIFICATION KernelSpec
SYMMETRY Symmetry
INVARIANTS LeaseInv OutboxInv
PROPERTIES LostAuthorityStaysLost ImplementsDelivery
