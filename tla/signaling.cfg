SPECIFICATION Spec
CONSTANTS
    Users = {alice, bob, carol}
    Sockets = {s1, s2}
    Calls = {c1}
    RestUsers = {alice}
    RestStatuses = {"ongoing"}
    Initiations <- SelfAmongAll
    AnswersOwn = FALSE
    MaxPending = 2
    None = None
    alice = alice
    bob = bob
    carol = carol
    s1 = s1
    s2 = s2
    c1 = c1
SYMMETRY SignalingSymmetry
INVARIANTS
    TypeOK
    RoutesToOwnOpenSocket
    ActiveCallAttended
    NoStuckOngoing
    AnnouncedIsRecorded
PROPERTIES
    CallerRingsOnlyIfNamed
    ImplementsHistory
CHECK_DEADLOCK FALSE
