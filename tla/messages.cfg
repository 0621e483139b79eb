SPECIFICATION Spec
CONSTANTS
    Users = {alice, bob}
    Messages = {m1, m2}
    Workers = {w1, w2}
    None = None
    MaxRequests = 4
    MaxFaults = 1
    alice = alice
    bob = bob
    m1 = m1
    m2 = m2
    w1 = w1
    w2 = w2
SYMMETRY MessageSymmetry
INVARIANTS
    TypeOK
    CacheFresh
    OneReactionEach
    RetractedIsEmpty
CHECK_DEADLOCK FALSE
