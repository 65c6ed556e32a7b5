CONSTANTS
    a = a
    b = b
    c = c
    d = d
    e = e
    f = f
    g = g
    N = 2
    Pairs = {a, b, c, d, e, f, g}
    Graphs <- QuietGraphs
    Capacity = 4
    MaxReentrant = 2
    Nothing = Nothing
SPECIFICATION FairSpec
PROPERTY QuiescentRunStops
