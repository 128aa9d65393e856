CONSTANTS
    tick = tick
    dev = dev
    Threads = {tick}
    Ticker = tick
    NumFlags = 2
    Raises <- MCRaisesAll
    Gated = {1}
    MaxNest = 2
    Exclusive = FALSE
SPECIFICATION Spec
INVARIANT StackBalanced
