SPECIFICATION Spec
CONSTANTS
    Users = {alice, bob, carol}
    Calls = {c1, c2}
    Workers = {w1, w2}
    Invitations <- MCInvitations
    None = None
    MaxEntries = 4
    MaxRequests = 4
    alice = alice
    bob = bob
    carol = carol
    c1 = c1
    c2 = c2
    w1 = w1
    w2 = w2
SYMMETRY CallRecordsSymmetry
INVARIANTS
    TypeOK
    SettledRingsNobody
    OneCallInitiated
    LiveHasSomebody
PROPERTIES
    SettledForGood
    JoinedOnce
    EndTakesEverybody
CHECK_DEADLOCK FALSE
