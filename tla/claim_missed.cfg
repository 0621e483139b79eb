SPECIFICATION Spec
CONSTANTS
    Users = {alice, bob}
    Sockets = {s1, s2}
    Calls = {c1}
    RestUsers = {}
    RestStatuses = {}
    Initiations <- CallOthers
    AnswersOwn = FALSE
    MaxPending = 1
    None = None
    alice = alice
    bob = bob
    s1 = s1
    s2 = s2
    c1 = c1
INVARIANT MissedMeansUnanswered
CHECK_DEADLOCK FALSE
