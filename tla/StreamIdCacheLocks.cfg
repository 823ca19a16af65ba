SPECIFICATION Spec
CONSTANTS
    PlayerIds = {q1, q2}
    PublisherIds = {p1}
    Workers = {w1}
    ApiThreads = {a1, a2}
    Limit = 2
    NoRow = NoRow
    NoReply = NoReply
    NoThread = NoThread
    q1 = q1
    q2 = q2
    p1 = p1
    w1 = w1
    a1 = a1
    a2 = a2
INVARIANT NoLockCycle
