SPECIFICATION Spec
CONSTANTS
    Workers = {w1, w2}
    PubListeners = {lp}
    PlayListener = lq
    Publishers = {p1, p2}
    Players = {q1}
    Streams = {s1}
    Capacity = 3
    EpollMayFail = TRUE
    NoRole = NoRole
    NoStream = NoStream
    w1 = w1
    w2 = w2
    lp = lp
    lq = lq
    p1 = p1
    p2 = p2
    q1 = q1
    s1 = s1
INVARIANT RegisteredIsAlive
