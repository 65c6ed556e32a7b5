SPECIFICATION FairSpec
CONSTANTS
    Workers = {1, 2, 3}
    caller = caller
    NoPort = NoPort
    Nets <- MCNets
    Raising <- MCRaising
    MaxWires = 80
INVARIANTS TypeOK WiresLinear ValuesDelivered NothingLeft
PROPERTY Reduced
