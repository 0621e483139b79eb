SPECIFICATION Spec
CONSTANTS
    Users = {alice}
    Devices = {phone}
    Rooms = {r1}
    MaxEntries = 2
    MaxMessages = 1
    MaxFailures = 0
    None = None
    alice = alice
    phone = phone
    r1 = r1
PROPERTY LeaverIsOut
CHECK_DEADLOCK FALSE
