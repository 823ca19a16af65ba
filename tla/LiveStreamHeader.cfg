SPECIFICATION LiveSpec
CONSTANTS
    Size = 4
    PutLens = {1, 3}
    Readers = {r1}
    GetSize = 4
    Aligned = 2
    CountMod = 8
    MaxTotal = 10
    MaxLives = 2
    r1 = r1
INVARIANT HeaderWhole
