SPECIFICATION FairSpec
CONSTANTS
    Size = 6
    PutLens = {1, 2, 3}
    Readers = {r1, r2}
    GetSize = 4
    Aligned = 2
    CountMod = 12
    MaxTotal = 14
    r1 = r1
    r2 = r2
INVARIANTS TypeOK OnlyPublishedBytes
PROPERTIES Refines SkipsWholeLaps CatchesUp
