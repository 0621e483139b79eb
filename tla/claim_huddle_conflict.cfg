SPECIFICATION Spec
CONSTANTS
    Users = {alice, bob}
    Devices = {phone}
    Rooms = {r1}
    MaxEntries = 2
    MaxMessages = 1
    MaxFailures = 0
    None = None
    alice = alice
    bob = bob
    phone = phone
    r1 = r1
INVARIANT CountsOnlyPresent
CHECK_DEADLOCK FALSE
