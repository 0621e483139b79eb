SPECIFICATION FairSpec
CONSTANTS
    Users = {alice, bob}
    Devices = {phone}
    Rooms = {r1}
    MaxEntries = 3
    MaxMessages = 1
    MaxFailures = 1
    None = None
    alice = alice
    bob = bob
    phone = phone
    r1 = r1
PROPERTY EmptiedIsEnded
CHECK_DEADLOCK FALSE
