CONSTANTS
    even = even
    odd = odd
    step = step
    Threads = {t1, t2}
    Functions = {even, odd, step}
    Callees <- CycleCallees
    Fragile <- AllFragile
    MaxCalls = 1
    MaxFailures = 0
    NoThread = NoThread
    NoFunction = NoFunction
SPECIFICATION Spec
INVARIANT FirstCallsServed
