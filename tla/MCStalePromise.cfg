CONSTANTS
    even = even
    odd = odd
    step = step
    Threads = {t1}
    Functions = {even, odd, step}
    Callees <- CycleCallees
    Fragile <- AllFragile
    MaxCalls = 2
    MaxFailures = 1
    NoThread = NoThread
    NoFunction = NoFunction
SPECIFICATION Spec
INVARIANT NoStalePromise
