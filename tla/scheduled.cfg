SPECIFICATION FairSpec
CONSTANTS
    Messages = {m1, m2}
    Processes = {a, b}
    Slots = {s1}
    Clients = {c}
    MaxFaults = 1
    None = None
    m1 = m1
    m2 = m2
    a = a
    b = b
    s1 = s1
    c = c
INVARIANTS
    TypeOK
    PostedOnce
PROPERTIES
    SettledForGood
    ImplementsOutbox
    DueIsSettled
CHECK_DEADLOCK FALSE
