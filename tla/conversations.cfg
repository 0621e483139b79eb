SPECIFICATION Spec
CONSTANTS
    Users = {alice, bob, carol}
    Group <- MCGroup
    Messages = {m1, m2, m3}
    Workers = {w1, w2}
    Limit = 1
    MaxRequests = 4
    None = None
    alice = alice
    bob = bob
    carol = carol
    m1 = m1
    m2 = m2
    m3 = m3
    w1 = w1
    w2 = w2
SYMMETRY ConversationSymmetry
INVARIANTS
    TypeOK
    PinnedBound
    OnceEach
    LastNotOvertaken
    UnreadOfOthers
CHECK_DEADLOCK FALSE
