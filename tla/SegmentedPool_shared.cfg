CONSTANTS
    t1 = t1
    t2 = t2
    t3 = t3
    None = None
    Threads <- TwoThreads
    MaxLive = 2
    Serialised = FALSE
SPECIFICATION FairSpec
INVARIANTS ExclusiveClaim NoSpuriousFull
PROPERTIES ImplementsLifecycle ObtainReturns
