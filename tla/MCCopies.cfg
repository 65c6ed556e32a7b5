SPECIFICATION FairSpec
CONSTANTS
    Workers = {1, 2, 3}
    caller = caller
    NoPort = NoPort
    Nets <- DupNets
    Raising <- MCRaising
    MaxWires = 80
INVARIANT CopiesInOrder
