CONSTANTS
    tick = tick
    dev = dev
    Threads = {tick, dev}
    Ticker = tick
    NumFlags = 2
    Raises <- MCRaises
    Gated = {1}
    MaxNest = 2
    Exclusive = TRUE
SPECIFICATION FairSpec
INVARIANTS NoLostWakeup NoLostEvent
PROPERTIES EventServed
