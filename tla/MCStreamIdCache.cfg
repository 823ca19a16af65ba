SPECIFICATION FairSpec
CONSTANTS
    PlayerIds = {q1}
    PublisherIds = {p1}
    Workers = {w1}
    ApiThreads = {a1, a2}
    Limit = 2
    NoRow = NoRow
    NoReply = NoReply
    NoThread = NoThread
    q1 = q1
    p1 = p1
    w1 = w1
    a1 = a1
    a2 = a2
INVARIANTS TypeOK CacheIsTable
PROPERTIES ActsAsOneTable LoadedCallsReturn EditsAllowed
CHECK_DEADLOCK FALSE
