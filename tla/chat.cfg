SPECIFICATION Spec
CONSTANTS
    Users = {alice, bob}
    Processes = {p1}
    Sockets = {a1, b1, b2}
    Owner <- MCOwner
    Home <- MCHome
    Messages = {m1}
    Early = {a1}
    MaxEvents = 2
    None = None
    alice = alice
    bob = bob
    p1 = p1
    a1 = a1
    b1 = b1
    b2 = b2
    m1 = m1
SYMMETRY ChatSymmetry
INVARIANTS
    TypeOK
    EntryIsOpen
    StatusSettles
    SettledInRoom
PROPERTY NobodyMissed
CHECK_DEADLOCK FALSE
