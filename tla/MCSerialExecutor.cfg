SPECIFICATION Spec
CONSTANTS
    NoPort = NoPort
    Nets <- MCNets
    Raising = {}
    MaxWires = 250
INVARIANTS TypeOK VariablesMean RegistersClosed CallsLinear CallAnswered
PROPERTIES Returns Reduces
