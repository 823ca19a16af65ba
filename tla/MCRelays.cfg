SPECIFICATION FairSpec
CONSTANTS
    Workers = {w1, w2}
    AllWorkers = {w1}
    Relays = {r1, r2, r3}
    Upstreams = {1, 2}
    HashUrl = 1
    MaxEntries = 2
    NoRole = NoRole
    Client = Client
    w1 = w1
    w2 = w2
    r1 = r1
    r2 = r2
    r3 = r3
INVARIANTS PullerIsSource
PROPERTIES FirstNotForgotten SourceServed PullerReturns PusherReturns
