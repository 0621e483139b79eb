SPECIFICATION Spec
CONSTANTS
    Users = {alice, bob}
    Devices = {phone}
    Rooms = {r1, r2}
    MaxEntries = 2
    MaxMessages = 1
    MaxFailures = 1
    None = None
    alice = alice
    bob = bob
    phone = phone
    r1 = r1
    r2 = r2
SYMMETRY HuddleSymmetry
INVARIANTS
    TypeOK
    EmptyIsClosing
    ClosesOnlyOnLatecomers
    HeldByOneHuddle
PROPERTY ImplementsRooms
CHECK_DEADLOCK FALSE
