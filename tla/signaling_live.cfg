SPECIFICATION FairSpec
CONSTANTS
    Users = {alice, bob}
    Sockets = {s1, s2}
    Calls = {c1}
    RestUsers = {}
    RestStatuses = {}
    Initiations <- AnyOthers
    AnswersOwn = FALSE
    MaxPending = 2
    None = None
    alice = alice
    bob = bob
    s1 = s1
    s2 = s2
    c1 = c1
PROPERTY AbandonedCallRemoved
CHECK_DEADLOCK FALSE
