CONSTANTS
    a = a
    b = b
    c = c
    d = d
    e = e
    f = f
    g = g
    N = 3
    Pairs = {a, b, c, d, e, f, g}
    Graphs <- MCGraphs
    Capacity = 4
    MaxReentrant = 2
    Nothing = Nothing
SPECIFICATION FairSpec
INVARIANTS TypeOK PairsConserved WorkerReserve ThiefRemains
PROPERTIES OutputDelivered
